---- MODULE Spec2Model ----
(***************************************************************************)
(* A model of the Ledger Engine of LitRPG Logic Copilot                    *)
(* (src/logic/ledger_engine.py) with the Temporal State, the Rule Engine   *)
(* and the Unit Registry it drives.                                        *)
(*                                                                         *)
(* A ledger is a record; every handler of LedgerEngine is an operator that *)
(* maps a ledger (and the call's arguments) to the ledger after the call   *)
(* and the call's result.  Python's in-place mutation of the event         *)
(* dictionaries during replay is modelled by reduce returning the event    *)
(* list as it is after the replay; every caller stores that list back.     *)
(*                                                                         *)
(* In the ledger Decimals are modelled by integers (all rates, modifiers   *)
(* and amounts used there are whole); in the Formula Engine and in the     *)
(* Unit Registry's breakdown they are fractions.  The constructor          *)
(* registers no formula and the specifications that replay events register *)
(* none, so there computed_stats is the empty mapping and the replay's     *)
(* mark_dirty is a no-op; SpecFormula drives the Formula Engine itself.    *)
(* Timestamps and the expiry type "time" are not modelled.                 *)
(***************************************************************************)
EXTENDS Integers, Sequences, FiniteSets, TLC

VARIABLES
    led,    \* the ledger under test (a LedgerEngine instance)
    twin,   \* a memory-only ledger that receives the same calls (SpecTwin)
    last,   \* the last call: its name, arguments and result
    disk    \* the files at save_path while a write is in progress (SpecCrash)

vars == <<led, twin, last, disk>>

-----------------------------------------------------------------------------
(* Bounds of the model.                                                    *)

MaxLog == 2
MaxEventId == 3
MaxBuffId == 3
MaxLogLines == 2
MaxRules == 1
WriteChunks == 2
MaxBuffLog == 4
MaxBuffEventId == 4
MaxItemLog == 5
MaxItemEventId == 5
MaxItemLogLines == 4
MaxBaseValue == 120
MaxRuleChain == 2

-----------------------------------------------------------------------------
(* Generic helpers on mappings (Python dicts) and sequences.               *)

EmptyMap == [x \in {} |-> 0]

Get(f, k, d) == IF k \in DOMAIN f THEN f[k] ELSE d

Put(f, k, v) == [x \in (DOMAIN f) \cup {k} |-> IF x = k THEN v ELSE f[x]]

Range(s) == {s[i] : i \in DOMAIN s}

RemoveAt(s, i) == SubSeq(s, 1, i - 1) \o SubSeq(s, i + 1, Len(s))

\* a local variable of the code: v is computed once and used as F's argument
With(v, F(_)) == F(v)

-----------------------------------------------------------------------------
(* Raw values of an event field as the caller supplies them.               *)
(*   num  : a string or number that is a plain numeric literal             *)
(*   tbd  : one of the indeterminate sentinels None, "", "TBD", "tbd"      *)
(*   junk : a string that holds no digit ("abc", "Infinity")               *)
(*   none : the key is absent from the dictionary                          *)

Num(n) == [k |-> "num", n |-> n]
Tbd == [k |-> "tbd", n |-> 0]
Junk == [k |-> "junk", n |-> 0]
Absent == [k |-> "none", n |-> 0]

\* value_raw in [None, "", "TBD", "tbd"]
IsIndeterminate(v) == v.k = "tbd"

\* _clean_number: the first numeric token of the string, "0" when there is none
CleanNumber(v) == IF v.k = "num" THEN v.n ELSE 0

\* Decimal(str(v)) raises InvalidOperation unless the string is a number
DecimalRaises(v) == v.k \in {"tbd", "junk"}

-----------------------------------------------------------------------------
(* Strings that the code inspects character by character are tuples of     *)
(* one-character strings.                                                  *)

UpperChars == <<"A","B","C","D","E","F","G","H","I","J","K","L","M",
                "N","O","P","Q","R","S","T","U","V","W","X","Y","Z">>
LowerChars == <<"a","b","c","d","e","f","g","h","i","j","k","l","m",
                "n","o","p","q","r","s","t","u","v","w","x","y","z">>
DigitChars == {"0","1","2","3","4","5","6","7","8","9"}

\* str.lower() on one character
LowerChar(c) ==
    IF c \in Range(UpperChars)
    THEN LowerChars[CHOOSE i \in DOMAIN UpperChars : UpperChars[i] = c]
    ELSE c

ToLower(s) == [i \in DOMAIN s |-> LowerChar(s[i])]

RECURSIVE StripNonAlnum(_)
\* re.sub(r'[\s_\W]+', '', s)
StripNonAlnum(s) ==
    IF s = <<>> THEN <<>>
    ELSE IF Head(s) \in Range(LowerChars) \cup Range(UpperChars) \cup DigitChars
         THEN <<Head(s)>> \o StripNonAlnum(Tail(s))
         ELSE StripNonAlnum(Tail(s))

\* kw in s
Contains(s, kw) ==
    \E i \in 0..(Len(s) - Len(kw)) : SubSeq(s, i + 1, i + Len(kw)) = kw

blocked_keywords ==
    << <<"i","g","n","o","r","e","p","r","o","m","p","t">>,
       <<"i","g","n","o","r","e","p","r","e","v","i","o","u","s">>,
       <<"c","h","e","a","t","c","o","d","e">>,
       <<"d","e","v","e","l","o","p","e","r","o","v","e","r","r","i","d","e">>,
       <<"s","y","s","t","e","m","o","v","e","r","r","i","d","e">>,
       <<"i","g","n","o","r","e","i","n","s","t","r","u","c","t","i","o","n","s">>,
       <<"d","i","s","r","e","g","a","r","d","p","r","e","v","i","o","u","s">> >>

\* the normalized reason of _validate_security_rules
NormalizeReason(reason) == StripNonAlnum(ToLower(reason))

HasBlockedKeyword(reason) ==
    \E i \in DOMAIN blocked_keywords :
        Contains(NormalizeReason(reason), blocked_keywords[i])

-----------------------------------------------------------------------------
(* Events.  Every event dictionary is a record with all the keys the code  *)
(* reads; an absent key holds Absent, "" or 0 as noted.                    *)

NoName == ""

Event(type, action, value, unit, name, qty, reason) ==
    [event_id |-> 0, type |-> type, action |-> action,
     value |-> value, unit |-> unit, name |-> name, qty |-> qty,
     reason |-> reason,
     effects |-> EmptyMap, expiry_type |-> "", expiry_value |-> 0,
     word_count_delta |-> 0,
     requires_manual_fix |-> FALSE, is_implicit |-> FALSE,
     logs |-> <<>>, original_name |-> NoName, applied_rules |-> <<>>]

EventIds(events) == [i \in DOMAIN events |-> events[i].event_id]

-----------------------------------------------------------------------------
(* Unit Registry (classic fantasy schema, the constructor's default).      *)

conversions == [GP |-> 100, SP |-> 10, CP |-> 1]

\* to_base, were the amount in an unknown unit dropped
to_base_drops_unknown(n, unit) ==
    IF unit \notin DOMAIN conversions THEN 0 ELSE n * conversions[unit]

\* UnitRegistry.to_base: value * rate; an unknown unit passes through 1:1
to_base(n, unit) ==
    IF unit \notin DOMAIN conversions THEN n ELSE n * conversions[unit]

-----------------------------------------------------------------------------
(* Temporal State.  A buff id "buff_%03d" is modelled by its number.  An   *)
(* expiry_value of 0 stands for None and 0 alike: the ledger replaces      *)
(* every falsy threshold of a non-permanent buff before add_buff.          *)

InitTemporal == [active_buffs |-> <<>>, buff_id_counter |-> 0]

\* TemporalState.add_buff
add_buff(ts, name, effects, expiry_type, expiry_value) ==
    IF expiry_type # "permanent" /\ expiry_value = 0
    THEN [ts |-> ts, id |-> 0, err |-> TRUE]
    ELSE LET id == ts.buff_id_counter + 1
             buff == [id |-> id, name |-> name, effects |-> effects,
                      expiry_type |-> expiry_type,
                      expiry_value |-> expiry_value]
         IN [ts |-> [active_buffs |-> Append(ts.active_buffs, buff),
                     buff_id_counter |-> id],
             id |-> id, err |-> FALSE]

\* the test of check_expiry with the thresholds passed, not reached
IsExpired_late(buff, current_chapter, word_count) ==
    \/ buff.expiry_type = "chapter" /\ current_chapter > buff.expiry_value
    \/ buff.expiry_type = "word_count" /\ word_count > buff.expiry_value

\* the test of check_expiry on one buff
IsExpired(buff, current_chapter, word_count) ==
    \/ buff.expiry_type = "chapter" /\ current_chapter >= buff.expiry_value
    \/ buff.expiry_type = "word_count" /\ word_count >= buff.expiry_value

RECURSIVE KeepBuffs(_, _, _)
KeepBuffs(buffs, current_chapter, word_count) ==
    IF buffs = <<>> THEN <<>>
    ELSE IF IsExpired(Head(buffs), current_chapter, word_count)
         THEN KeepBuffs(Tail(buffs), current_chapter, word_count)
         ELSE <<Head(buffs)>> \o KeepBuffs(Tail(buffs), current_chapter, word_count)

\* TemporalState.check_expiry: the ids of the expired buffs, which are removed
check_expiry(ts, current_chapter, word_count) ==
    [ts |-> [ts EXCEPT !.active_buffs = KeepBuffs(@, current_chapter, word_count)],
     expired |-> {ts.active_buffs[i].id : i \in
                    {j \in DOMAIN ts.active_buffs :
                        IsExpired(ts.active_buffs[j], current_chapter, word_count)}}]

RECURSIVE SumEffects(_, _)
SumEffects(buffs, stat) ==
    IF buffs = <<>> THEN 0
    ELSE Get(Head(buffs).effects, stat, 0) + SumEffects(Tail(buffs), stat)

\* TemporalState.get_active_effects
get_active_effects(ts) ==
    [stat \in UNION {DOMAIN ts.active_buffs[i].effects : i \in DOMAIN ts.active_buffs}
        |-> SumEffects(ts.active_buffs, stat)]

\* TemporalState.to_dict: the serialized buffs (effects as strings)
TemporalToDict(ts) == ts.active_buffs

RECURSIVE MaxBuffIdOf(_)
MaxBuffIdOf(buffs) ==
    IF buffs = <<>> THEN 0
    ELSE LET m == MaxBuffIdOf(Tail(buffs))
         IN IF Head(buffs).id > m THEN Head(buffs).id ELSE m

\* TemporalState.from_dict: the active list is replaced, the counter only raised
TemporalFromDict(ts, data) ==
    [active_buffs |-> data,
     buff_id_counter |-> IF MaxBuffIdOf(data) > ts.buff_id_counter
                         THEN MaxBuffIdOf(data) ELSE ts.buff_id_counter]

-----------------------------------------------------------------------------
(* Fuzzy name matching.  difflib.SequenceMatcher is library code: the      *)
(* number of matching characters it finds (on the lowercased names) and    *)
(* the numeral-stripped skeletons are tabulated for the names used.        *)

HP1 == "Health Potion 1"
HP2 == "Health Potion 2"
HP == "Health Potion"
RottenCore == "Rotten Core"
RottnCore == "Rottn Core"

NameLen(n) ==
    CASE n = HP1 -> 15 [] n = HP2 -> 15 [] n = HP -> 13
      [] n = RottenCore -> 11 [] n = RottnCore -> 10 [] OTHER -> 1

\* re.sub(r'\d+', '', name)
Skeleton(n) == IF n \in {HP1, HP2} THEN "Health Potion " ELSE n

\* sum of the sizes of SequenceMatcher's matching blocks
MatchingChars(a, b) ==
    CASE a = b -> NameLen(a)
      [] {a, b} = {HP1, HP2} -> 14
      [] {a, b} \in {{HP, HP1}, {HP, HP2}} -> 13
      [] {a, b} = {RottenCore, RottnCore} -> 10
      [] {a, b} \in {{HP1, RottenCore}, {HP2, RottenCore},
                     {HP1, RottnCore}, {HP2, RottnCore}} -> 4
      [] {a, b} \in {{HP, RottenCore}, {HP, RottnCore}} -> 3
      [] OTHER -> 0

\* ratio() = 2*M/T as the fraction <<2*M, T>>
RatioNum(a, b) == 2 * MatchingChars(a, b)
RatioDen(a, b) == NameLen(a) + NameLen(b)

\* ratio > 0.9
RatioAbove90(a, b) == 10 * RatioNum(a, b) > 9 * RatioDen(a, b)

\* LedgerEngine.normalize_entity_name: <<best name, is_ambiguous>>
\* the names that pass the numeral check and the 0.9 threshold
Candidates(raw_name, existing_names) ==
    {n \in existing_names :
        /\ ~(Skeleton(raw_name) = Skeleton(n) /\ raw_name # n)
        /\ RatioAbove90(raw_name, n)}

\* ratio(raw_name, a) >= ratio(raw_name, b), on fractions
RatioGeq(raw_name, a, b) ==
    RatioNum(raw_name, a) * RatioDen(raw_name, b)
        >= RatioNum(raw_name, b) * RatioDen(raw_name, a)

\* the head of the candidates sorted by ratio, descending
BestOf(raw_name, candidates) ==
    CHOOSE b \in candidates : \A c \in candidates : RatioGeq(raw_name, b, c)

\* (best_ratio - second_ratio) < 0.1
RatioClose(raw_name, best, second) ==
    10 * (RatioNum(raw_name, best) * RatioDen(raw_name, second)
          - RatioNum(raw_name, second) * RatioDen(raw_name, best))
        < RatioDen(raw_name, best) * RatioDen(raw_name, second)

\* the ambiguity check on the best candidate and the runner-up
PickBest(raw_name, best, rest) ==
    IF rest # {} /\ RatioClose(raw_name, best, BestOf(raw_name, rest))
    THEN <<raw_name, TRUE>>
    ELSE <<best, FALSE>>

\* LedgerEngine.normalize_entity_name: <<name, is_ambiguous>>
normalize_entity_name(raw_name, existing_names) ==
    IF raw_name = NoName \/ existing_names = {} THEN <<raw_name, FALSE>>
    ELSE IF raw_name \in existing_names THEN <<raw_name, FALSE>>
    ELSE With(Candidates(raw_name, existing_names), LAMBDA candidates :
            IF candidates = {} THEN <<raw_name, FALSE>>
            ELSE With(BestOf(raw_name, candidates), LAMBDA best :
                    PickBest(raw_name, best, candidates \ {best})))

-----------------------------------------------------------------------------
(* The derived State and the replay.                                       *)

\* LedgerEngine._get_initial_state
InitialState ==
    [gold_cp |-> 0, inventory |-> EmptyMap, stats |-> EmptyMap,
     computed_stats |-> EmptyMap, buffs |-> <<>>, alerts |-> {}]

AddLog(e, line) == [e EXCEPT !.logs = Append(@, line)]

\* _apply_event, type "gold", were the draft-mode underflow left unflagged
ApplyGold_unflagged(strict, state, e) ==
    LET value_raw == IF e.value.k = "none" THEN Num(0) ELSE e.value
        unit == IF e.unit = "" THEN "CP" ELSE e.unit
        cp_value == to_base(CleanNumber(value_raw), unit)
    IN IF IsIndeterminate(value_raw)
       THEN [state |-> state, e |-> [e EXCEPT !.requires_manual_fix = TRUE],
             err |-> FALSE]
       ELSE CASE e.action = "gain" ->
                   [state |-> [state EXCEPT !.gold_cp = @ + cp_value],
                    e |-> e, err |-> FALSE]
              [] e.action = "lose" ->
                   IF state.gold_cp < cp_value /\ strict
                   THEN [state |-> state, e |-> e, err |-> TRUE]
                   ELSE [state |-> [state EXCEPT !.gold_cp = @ - cp_value],
                         e |-> e, err |-> FALSE]
              [] e.action = "set" ->
                   [state |-> [state EXCEPT !.gold_cp = cp_value],
                    e |-> e, err |-> FALSE]
              [] OTHER -> [state |-> state, e |-> e, err |-> FALSE]

\* _apply_event, type "gold"
ApplyGold(strict, state, e) ==
    LET value_raw == IF e.value.k = "none" THEN Num(0) ELSE e.value
        unit == IF e.unit = "" THEN "CP" ELSE e.unit
        cp_value == to_base(CleanNumber(value_raw), unit)
        underflow == state.gold_cp < cp_value
    IN IF IsIndeterminate(value_raw)
       THEN [state |-> state, e |-> [e EXCEPT !.requires_manual_fix = TRUE],
             err |-> FALSE]
       ELSE CASE e.action = "gain" ->
                   [state |-> [state EXCEPT !.gold_cp = @ + cp_value],
                    e |-> e, err |-> FALSE]
              [] e.action = "lose" ->
                   IF underflow /\ strict
                   THEN [state |-> state, e |-> e, err |-> TRUE]
                   ELSE [state |-> [state EXCEPT !.gold_cp = @ - cp_value],
                         e |-> IF underflow
                               THEN AddLog([e EXCEPT !.is_implicit = TRUE],
                                           <<"Warning: Gold underflow allowed in Draft Mode">>)
                               ELSE e,
                         err |-> FALSE]
              [] e.action = "set" ->
                   [state |-> [state EXCEPT !.gold_cp = cp_value],
                    e |-> e, err |-> FALSE]
              [] OTHER -> [state |-> state, e |-> e, err |-> FALSE]

\* _apply_event, type "item"
ApplyItem(strict, state, e0) ==
    With(normalize_entity_name(e0.name, DOMAIN state.inventory), LAMBDA nm :
      With(IF nm[2] THEN e0.name ELSE nm[1], LAMBDA name :
        With(IF nm[2]
             THEN AddLog([e0 EXCEPT !.requires_manual_fix = TRUE],
                         <<"Ambiguous match", e0.name>>)
             ELSE IF name # e0.name
             THEN AddLog([e0 EXCEPT !.original_name = e0.name, !.name = name],
                         <<"Fuzzy Matched", e0.name, name>>)
             ELSE e0,
             LAMBDA e :
          With(IF e.qty.k = "none" THEN Num(1) ELSE e.qty, LAMBDA qty_raw :
            With(CleanNumber(qty_raw), LAMBDA qty :
              With(Get(state.inventory, name, 0), LAMBDA current_qty :
                IF IsIndeterminate(qty_raw)
                THEN [state |-> state,
                      e |-> [e EXCEPT !.requires_manual_fix = TRUE],
                      err |-> FALSE]
                ELSE IF qty <= 0 /\ strict
                THEN [state |-> state, e |-> e, err |-> TRUE]
                ELSE CASE e.action = "gain" ->
                            [state |-> [state EXCEPT
                                          !.inventory = Put(@, name, current_qty + qty)],
                             e |-> e, err |-> FALSE]
                       [] e.action = "lose" ->
                            IF current_qty < qty /\ strict
                            THEN [state |-> state, e |-> e, err |-> TRUE]
                            ELSE [state |-> [state EXCEPT
                                               !.inventory =
                                                   Put(@, name, current_qty - qty)],
                                  e |-> IF current_qty < qty
                                        THEN AddLog([e EXCEPT !.is_implicit = TRUE],
                                                    <<"Warning: Item underflow allowed",
                                                      name>>)
                                        ELSE e,
                                  err |-> FALSE]
                       [] OTHER -> [state |-> state, e |-> e, err |-> FALSE]))))))

\* _apply_event, type "stat", without the test for an indeterminate value
ApplyStat_unguarded(state, e) ==
    LET value == CleanNumber(IF e.value.k = "none" THEN Num(0) ELSE e.value)
        current_value == Get(state.stats, e.name, 0)
    IN CASE e.action = "gain" ->
               [state |-> [state EXCEPT !.stats = Put(@, e.name, current_value + value)],
                e |-> e, err |-> FALSE]
         [] e.action = "lose" ->
               [state |-> [state EXCEPT !.stats = Put(@, e.name, current_value - value)],
                e |-> e, err |-> FALSE]
         [] e.action = "set" ->
               [state |-> [state EXCEPT !.stats = Put(@, e.name, value)],
                e |-> e, err |-> FALSE]
         [] OTHER -> [state |-> state, e |-> e, err |-> FALSE]

\* _apply_event, type "stat" (mark_dirty finds no formula to flag)
ApplyStat(state, e) ==
    LET val_raw == IF e.value.k = "none" THEN Num(0) ELSE e.value
        value == CleanNumber(val_raw)
        current_value == Get(state.stats, e.name, 0)
    IN IF IsIndeterminate(val_raw)
       THEN [state |-> state, e |-> [e EXCEPT !.requires_manual_fix = TRUE],
             err |-> FALSE]
       ELSE CASE e.action = "gain" ->
                   [state |-> [state EXCEPT !.stats = Put(@, e.name, current_value + value)],
                    e |-> e, err |-> FALSE]
              [] e.action = "lose" ->
                   [state |-> [state EXCEPT !.stats = Put(@, e.name, current_value - value)],
                    e |-> e, err |-> FALSE]
              [] e.action = "set" ->
                   [state |-> [state EXCEPT !.stats = Put(@, e.name, value)],
                    e |-> e, err |-> FALSE]
              [] OTHER -> [state |-> state, e |-> e, err |-> FALSE]

\* _apply_event, type "buff": the expiry defaults are written into the event,
\* the effects are sanitized, the buff is registered with the Temporal State
ApplyBuff(state, e0, ts) ==
    IF e0.action # "gain" THEN [state |-> state, e |-> e0, ts |-> ts, err |-> FALSE]
    ELSE With(IF e0.expiry_type = "" THEN [e0 EXCEPT !.expiry_type = "chapter"]
              ELSE e0, LAMBDA e1 :
           With(IF e1.expiry_value = 0 /\ e1.expiry_type # "permanent"
                THEN [e1 EXCEPT !.expiry_value = 1] ELSE e1, LAMBDA e :
             With(add_buff(ts, IF e.name = NoName THEN "Unknown Buff" ELSE e.name,
                           [st \in DOMAIN e.effects |-> CleanNumber(e.effects[st])],
                           e.expiry_type, e.expiry_value), LAMBDA r :
               IF r.err THEN [state |-> state, e |-> e, ts |-> ts, err |-> TRUE]
               ELSE [state |-> IF r.id \in Range(state.buffs) THEN state
                               ELSE [state EXCEPT !.buffs = Append(@, r.id)],
                     e |-> e, ts |-> r.ts, err |-> FALSE])))

\* LedgerEngine._apply_event: the state, the event as annotated, the Temporal
\* State, and whether an exception was raised
ApplyEvent(strict, state, e, ts) ==
    CASE e.type = "gold" ->
            With(ApplyGold(strict, state, e), LAMBDA r :
                [state |-> r.state, e |-> r.e, ts |-> ts, err |-> r.err])
      [] e.type = "item" ->
            With(ApplyItem(strict, state, e), LAMBDA r :
                [state |-> r.state, e |-> r.e, ts |-> ts, err |-> r.err])
      [] e.type = "stat" ->
            With(ApplyStat(state, e), LAMBDA r :
                [state |-> r.state, e |-> r.e, ts |-> ts, err |-> r.err])
      [] e.type = "buff" -> ApplyBuff(state, e, ts)
      [] OTHER -> [state |-> state, e |-> e, ts |-> ts, err |-> FALSE]

\* k.upper() in CRITICAL_KEYS, for the stat names used
CRITICAL_KEYS == {"HP", "HEALTH", "LIFE", "MP", "MANA", "STAMINA", "ENERGY"}

UpperName(n) ==
    CASE n = "Strength" -> "STRENGTH"
      [] n = "Hp" -> "HP"
      [] n = "xp" -> "XP"
      [] n = "gp" -> "GP"
      [] OTHER -> n

RECURSIVE ReplayFrom(_, _, _, _)
\* the loop of reduce from event i on; acc holds the state, the event list as
\* mutated so far, the Temporal State and the temporal context
ReplayFrom(strict, acc, i, n) ==
    IF i > n \/ acc.err THEN acc
    ELSE With(IF acc.events[i].type = "chapter_start"
              THEN acc.chapter + 1 ELSE acc.chapter, LAMBDA chapter :
           With(acc.word_count + acc.events[i].word_count_delta, LAMBDA word_count :
             With(check_expiry(acc.ts, chapter, word_count), LAMBDA x :
               With(ApplyEvent(strict,
                               [acc.state EXCEPT
                                  !.buffs = SelectSeq(@, LAMBDA b : b \notin x.expired)],
                               acc.events[i], x.ts), LAMBDA r :
                 ReplayFrom(strict,
                            [state |-> r.state,
                             events |-> [acc.events EXCEPT ![i] = r.e],
                             ts |-> r.ts, err |-> r.err,
                             chapter |-> chapter, word_count |-> word_count],
                            i + 1, n)))))

\* the tail of reduce: the buff effects are folded into the combined stats
\* and the critical-stat alerts are raised
ReduceResult(acc, buff_effects) ==
    [state |-> IF acc.err THEN acc.state
               ELSE [acc.state EXCEPT
                       !.computed_stats = EmptyMap,
                       !.alerts = {k \in DOMAIN acc.state.stats :
                                     /\ UpperName(k) \in CRITICAL_KEYS
                                     /\ acc.state.stats[k] < 0}],
     events |-> acc.events, ts |-> acc.ts, err |-> acc.err,
     chapter |-> acc.chapter, word_count |-> acc.word_count,
     combined_stats |->
         [st \in (DOMAIN acc.state.stats) \cup (DOMAIN buff_effects) |->
             Get(acc.state.stats, st, 0) + Get(buff_effects, st, 0)]]

\* LedgerEngine.reduce on the list events of a ledger whose Temporal State is
\* ts: the State returned (when err is FALSE), the events as the replay left
\* them, the Temporal State after it, and err = an exception was raised
reduce(strict, events, ts) ==
    With(ReplayFrom(strict,
                    [state |-> InitialState, events |-> events, ts |-> ts,
                     err |-> FALSE, chapter |-> 0, word_count |-> 0],
                    1, Len(events)), LAMBDA acc :
        ReduceResult(acc, get_active_effects(acc.ts)))

-----------------------------------------------------------------------------
(* Formula Engine.  An expression is modelled by its syntax tree; a        *)
(* malformed expression by a tree of kind "bad" that lists the             *)
(* identifiers of its text.  A Decimal is modelled by a fraction           *)
(* [p, q] in lowest terms with q > 0.  An exception is modelled by the     *)
(* name of its class and by its cause, which is all that its message       *)
(* tells.                                                                  *)

Lit(n) == [k |-> "lit", name |-> "", n |-> n, args |-> <<>>]
Var(name) == [k |-> "var", name |-> name, n |-> 0, args |-> <<>>]
Bin(op, l, r) == [k |-> "bin", name |-> op, n |-> 0, args |-> <<l, r>>]
Fn(fn, args) == [k |-> "call", name |-> fn, n |-> 0, args |-> args]
Malformed(names) ==
    [k |-> "bad", name |-> "", n |-> 0,
     args |-> [i \in 1..Len(names) |-> Var(names[i])]]

RECURSIVE Gcd(_, _)
Gcd(a, b) == IF b = 0 THEN a ELSE Gcd(b, a % b)
Abs(a) == IF a < 0 THEN -a ELSE a

\* the Decimal p / q
Frac(p, q) ==
    [p |-> (IF q < 0 THEN -p ELSE p) \div Gcd(Abs(p), Abs(q)),
     q |-> Abs(q) \div Gcd(Abs(p), Abs(q))]
Whole(n) == [p |-> n, q |-> 1]

RECURSIVE IntPow(_, _)
IntPow(a, b) == IF b = 0 THEN 1 ELSE a * IntPow(a, b - 1)

\* the keywords that _extract_dependencies filters out
FORMULA_KEYWORDS == {"abs", "max", "min", "int", "round", "True", "False",
                     "None", "if", "else", "and", "or", "not", "in", "is"}

\* the identifiers that the pattern of _extract_dependencies finds in the
\* text of an expression: variables and function names alike
RECURSIVE Identifiers(_)
Identifiers(e) ==
    (IF e.k \in {"var", "call"} THEN {e.name} ELSE {})
        \cup UNION {Identifiers(e.args[i]) : i \in DOMAIN e.args}

\* FormulaEngine._extract_dependencies
extract_dependencies(expression) == Identifiers(expression) \ FORMULA_KEYWORDS

\* FormulaEngine.__init__
InitFormulas == [formulas |-> EmptyMap, dirty_flags |-> EmptyMap,
                 dependencies |-> EmptyMap]

\* del d[k]
Del(f, k) == [x \in (DOMAIN f) \ {k} |-> f[x]]

\* FormulaEngine._detect_cycles: TRUE when it raises ValueError
RECURSIVE detect_cycles(_, _, _)
detect_cycles(dependencies, start_field, visited) ==
    IF start_field \in visited THEN TRUE
    ELSE IF start_field \notin DOMAIN dependencies THEN FALSE
    ELSE \E dep_field \in dependencies[start_field] :
            detect_cycles(dependencies, dep_field, visited \cup {start_field})

\* the three assignments that open register_formula
Registered(fe, field_name, expression) ==
    [formulas |-> Put(fe.formulas, field_name, expression),
     dirty_flags |-> Put(fe.dirty_flags, field_name, TRUE),
     dependencies |-> Put(fe.dependencies, field_name,
                          extract_dependencies(expression))]

\* register_formula without the cycle check
register_formula_unchecked(fe, field_name, expression) ==
    [fe |-> Registered(fe, field_name, expression), raised |-> FALSE]

\* FormulaEngine.register_formula; raised = ValueError (circular dependency)
register_formula(fe, field_name, expression) ==
    With(Registered(fe, field_name, expression), LAMBDA new :
      IF detect_cycles(new.dependencies, field_name, {})
      THEN [fe |-> [formulas |-> Del(new.formulas, field_name),
                    dirty_flags |-> Del(new.dirty_flags, field_name),
                    dependencies |-> Del(new.dependencies, field_name)],
            raised |-> TRUE]
      ELSE [fe |-> new, raised |-> FALSE])

\* mark_dirty, were every formula flagged whatever it depends on
mark_dirty_all(fe, base_field) ==
    [fe EXCEPT !.dirty_flags = [f \in DOMAIN @ |-> TRUE]]

\* FormulaEngine.mark_dirty
mark_dirty(fe, base_field) ==
    [fe EXCEPT !.dirty_flags =
        [f \in DOMAIN @ |->
            IF base_field \in fe.dependencies[f] THEN TRUE ELSE @[f]]]

\* the exponent guard of safe_pow
EXPONENT_LIMIT == 100

NoValue == Whole(0)
Value(v) == [err |-> "", v |-> v]
Failure(cause) == [err |-> cause, v |-> NoValue]

\* safe_div, which serves both / and //
safe_div(a, b) ==
    IF b.p = 0 THEN Failure("ZeroDivisionError")
    ELSE Value(Frac(a.p * b.q, a.q * b.p))

\* safe_pow, for whole exponents
safe_pow(x, y) ==
    IF y.p > EXPONENT_LIMIT * y.q THEN Failure("exponent limit")
    ELSE IF y.q = 1 /\ y.p >= 0
         THEN Value(Frac(IntPow(x.p, y.p), IntPow(x.q, y.p)))
         ELSE Failure("unsupported")

\* the operators table of __init__ applied to two Decimals
ApplyOperator(op, a, b) ==
    CASE op = "+" -> Value(Frac(a.p * b.q + b.p * a.q, a.q * b.q))
      [] op = "-" -> Value(Frac(a.p * b.q - b.p * a.q, a.q * b.q))
      [] op = "*" -> Value(Frac(a.p * b.p, a.q * b.q))
      [] op = "/" -> safe_div(a, b)
      [] op = "//" -> safe_div(a, b)
      [] op = "**" -> safe_pow(a, b)
      [] OTHER -> Failure("unsupported")

\* the functions table of __init__ applied to Decimals
ApplyFunction(fn, vs) ==
    CASE fn = "abs" /\ Len(vs) = 1 -> Value([p |-> Abs(vs[1].p), q |-> vs[1].q])
      [] fn = "pow" /\ Len(vs) = 2 -> safe_pow(vs[1], vs[2])
      [] fn = "max" /\ Len(vs) = 2 ->
            Value(IF vs[1].p * vs[2].q >= vs[2].p * vs[1].q THEN vs[1] ELSE vs[2])
      [] fn = "min" /\ Len(vs) = 2 ->
            Value(IF vs[1].p * vs[2].q <= vs[2].p * vs[1].q THEN vs[1] ELSE vs[2])
      [] OTHER -> Failure("unsupported")

\* simple_eval(expression, names, functions, operators): the value, or the
\* cause of the exception; operands are evaluated left to right
RECURSIVE simple_eval(_, _)
EvalBin(e, names, l, r) ==
    IF l.err # "" THEN l
    ELSE IF r.err # "" THEN r
    ELSE ApplyOperator(e.name, l.v, r.v)

EvalCall(e, names, rs) ==
    IF \E i \in DOMAIN rs : rs[i].err # ""
    THEN rs[CHOOSE i \in DOMAIN rs :
               rs[i].err # "" /\ \A j \in 1..(i - 1) : rs[j].err = ""]
    ELSE ApplyFunction(e.name, [i \in DOMAIN rs |-> rs[i].v])

simple_eval(e, names) ==
    CASE e.k = "lit" -> Value(Whole(e.n))
      [] e.k = "var" -> IF e.name \in DOMAIN names THEN Value(Whole(names[e.name]))
                        ELSE Failure("NameNotDefined")
      [] e.k = "bin" -> EvalBin(e, names, simple_eval(e.args[1], names),
                                simple_eval(e.args[2], names))
      [] e.k = "call" -> EvalCall(e, names,
                                  [i \in DOMAIN e.args |->
                                      simple_eval(e.args[i], names)])
      [] OTHER -> Failure("SyntaxError")

\* the except clause that closes recalculate: every exception of the
\* evaluation is raised again as a ValueError that quotes its message
Evaluated(fe, field_name, r) ==
    IF r.err # ""
    THEN [fe |-> fe, raised |-> "ValueError", cause |-> r.err, value |-> NoValue]
    ELSE [fe |-> [fe EXCEPT !.dirty_flags[field_name] = FALSE],
          raised |-> "", cause |-> "", value |-> r.v]

\* FormulaEngine.recalculate on a context of whole numbers
recalculate(fe, field_name, context) ==
    IF field_name \notin DOMAIN fe.formulas
    THEN [fe |-> fe, raised |-> "ValueError", cause |-> "unknown formula",
          value |-> NoValue]
    ELSE IF fe.dependencies[field_name] \ DOMAIN context # {}
    THEN [fe |-> fe, raised |-> "KeyError", cause |-> "missing stats",
          value |-> NoValue]
    ELSE Evaluated(fe, field_name,
                   simple_eval(fe.formulas[field_name], context))

-----------------------------------------------------------------------------
(* Unit Registry: schemas and the breakdown of a base value.  A schema's   *)
(* conversions dictionary is the sequence of its [unit, rate] entries in   *)
(* insertion order; a rate is a Decimal.                                   *)

Rate(unit, rate) == [unit |-> unit, rate |-> rate]
Schema(base_unit, units) == [base_unit |-> base_unit, conversions |-> units]

\* WorldSchema.classic_fantasy, the default schema
classic_fantasy ==
    Schema("CP", <<Rate("GP", Whole(100)), Rate("SP", Whole(10)),
                   Rate("CP", Whole(1))>>)

\* WorldSchema.modern: every unit has an alias of the same rate
modern ==
    Schema("Cent", <<Rate("USD", Whole(100)), Rate("$", Whole(100)),
                     Rate("Cent", Whole(1)), Rate("c", Whole(1))>>)

UnitsOf(schema) == {schema.conversions[i].unit : i \in DOMAIN schema.conversions}

RateOf(schema, unit) ==
    schema.conversions[CHOOSE i \in DOMAIN schema.conversions :
                           schema.conversions[i].unit = unit].rate

\* WorldSchema.__post_init__ and WorldSchema.validate: the base unit is a
\* unit of rate 1 and every rate is positive
validate(schema) ==
    /\ schema.base_unit \in UnitsOf(schema)
    /\ RateOf(schema, schema.base_unit) = Whole(1)
    /\ \A i \in DOMAIN schema.conversions : schema.conversions[i].rate.p > 0

FracLess(a, b) == a.p * b.q < b.p * a.q
FracTimes(a, b) == Frac(a.p * b.p, a.q * b.q)
FracMinus(a, b) == Frac(a.p * b.q - b.p * a.q, a.q * b.q)
FracPlus(a, b) == Frac(a.p * b.q + b.p * a.q, a.q * b.q)
\* Decimal's // on non-negative operands: the whole part of the quotient
FracFloorDiv(a, b) == Whole((a.p * b.q) \div (a.q * b.p))

\* sorted(conversions.items(), key=rate, reverse=True): stable, so entries
\* of equal rate keep their insertion order
RECURSIVE SortedByRate(_)
SortedByRate(units) ==
    IF units = <<>> THEN <<>>
    ELSE With(CHOOSE i \in DOMAIN units :
                  /\ \A j \in DOMAIN units : ~FracLess(units[i].rate, units[j].rate)
                  /\ \A j \in 1..(i - 1) : units[j].rate # units[i].rate,
              LAMBDA i : <<units[i]>> \o SortedByRate(RemoveAt(units, i)))

\* one turn of the loop of from_base over (unit, rate)
BreakdownStep(acc, base_unit, unit, rate) ==
    IF rate \in acc.processed_rates /\ unit # base_unit THEN acc
    ELSE IF rate = Whole(1) /\ unit # base_unit THEN acc
    ELSE IF unit = base_unit
    THEN [acc EXCEPT !.result = Put(@, unit, acc.remaining),
                     !.processed_rates = @ \cup {rate}]
    ELSE IF FracFloorDiv(acc.remaining, rate).p > 0
    THEN [result |-> Put(acc.result, unit, FracFloorDiv(acc.remaining, rate)),
          remaining |-> FracMinus(acc.remaining,
                            FracTimes(FracFloorDiv(acc.remaining, rate), rate)),
          processed_rates |-> acc.processed_rates \cup {rate}]
    ELSE acc

RECURSIVE BreakdownLoop(_, _, _)
BreakdownLoop(acc, base_unit, sorted_units) ==
    IF sorted_units = <<>> THEN acc
    ELSE BreakdownLoop(BreakdownStep(acc, base_unit, sorted_units[1].unit,
                                     sorted_units[1].rate),
                       base_unit, Tail(sorted_units))

\* the safeguard after the loop
BreakdownResult(acc, base_unit) ==
    IF acc.remaining.p > 0 /\ base_unit \notin DOMAIN acc.result
    THEN Put(acc.result, base_unit, acc.remaining)
    ELSE acc.result

\* UnitRegistry.from_base: the mapping unit -> count
from_base(schema, base_value) ==
    BreakdownResult(
        BreakdownLoop([result |-> EmptyMap, remaining |-> base_value,
                       processed_rates |-> {}],
                      schema.base_unit, SortedByRate(schema.conversions)),
        schema.base_unit)

\* UnitRegistry.register_unit: schema.conversions[unit_name] = rate
register_unit(schema, unit_name, conversion_rate) ==
    IF unit_name \in UnitsOf(schema)
    THEN [schema EXCEPT !.conversions =
             [i \in DOMAIN @ |-> IF @[i].unit = unit_name
                                 THEN Rate(unit_name, conversion_rate) ELSE @[i]]]
    ELSE [schema EXCEPT !.conversions = Append(@, Rate(unit_name, conversion_rate))]

-----------------------------------------------------------------------------
(* Rule Engine.  A rule id "rule_%03d" is modelled by its number;          *)
(* a condition is None or a string.                                        *)

NoCondition == [null |-> TRUE, text |-> ""]
Condition(text) == [null |-> FALSE, text |-> text]
\* the truth value Python gives a condition: None and "" are falsy
Truthy(condition) == ~condition.null /\ condition.text # ""

InitRules == [active_rules |-> <<>>, rule_id_counter |-> 0]

\* RuleEngine.add_rule
add_rule(re, target_type, operation, modifier, condition) ==
    LET id == re.rule_id_counter + 1
    IN [active_rules |-> Append(re.active_rules,
                                [id |-> id, target_type |-> target_type,
                                 operation |-> operation, modifier |-> modifier,
                                 condition |-> condition]),
        rule_id_counter |-> id]

RECURSIVE ApplyRulesFrom(_, _, _)
\* the loop of apply_rules over the rules from index i on
ApplyRulesFrom(rules, acc, i) ==
    IF i > Len(rules) \/ acc.raised THEN acc
    ELSE IF \/ ~(rules[i].target_type = acc.e.type \/ rules[i].target_type = "any")
            \/ Truthy(rules[i].condition)
            \/ acc.e.value.k = "none"
    THEN ApplyRulesFrom(rules, acc, i + 1)
    ELSE IF DecimalRaises(acc.e.value)
    THEN [e |-> acc.e, raised |-> TRUE]
    ELSE IF rules[i].operation \notin {"multiply", "add", "set"}
    THEN ApplyRulesFrom(rules, acc, i + 1)
    ELSE With(CASE rules[i].operation = "multiply" ->
                      acc.e.value.n * rules[i].modifier
                [] rules[i].operation = "add" -> acc.e.value.n + rules[i].modifier
                [] OTHER -> rules[i].modifier, LAMBDA new_value :
           ApplyRulesFrom(rules,
               [e |-> [acc.e EXCEPT
                         !.value = Num(new_value),
                         !.applied_rules =
                             Append(@, [rule_id |-> rules[i].id,
                                        original_value |-> acc.e.value.n,
                                        modified_value |-> new_value])],
                raised |-> FALSE],
               i + 1))

\* RuleEngine.apply_rules: the transformed copy of the event; raised when
\* Decimal(str(value)) fails on a value that is not a number
apply_rules(re, event) ==
    ApplyRulesFrom(re.active_rules, [e |-> event, raised |-> FALSE], 1)

-----------------------------------------------------------------------------
(* Security validation.                                                    *)

SAFE_LIMIT_HIGH == 999999
SAFE_LIMIT_STD == 20
GOLD_LIMIT_DEFAULT == 10000
ITEM_QTY_LIMIT == 50

UNROBUST_STATS ==
    {"XP", "EXPERIENCE", "GOLD", "GP", "SP", "CP", "CREDITS", "MONEY", "USD",
     "$", "CENT", "HEALTH", "HP", "LIFE", "MANA", "MP", "MAGIC", "STAMINA",
     "ENERGY", "FATIGUE", "DEBT", "STRESS", "DAMAGE", "DEFENSE", "ATTACK", "POWER"}

\* _validate_security_rules, were every stat given the high cap
validate_security_rules_high_cap(event) ==
    LET val == CleanNumber(IF event.value.k = "none" THEN Num(0) ELSE event.value)
        qty == CleanNumber(IF event.qty.k = "none" THEN Num(1) ELSE event.qty)
        gold_limit == IF UpperName(event.unit) \in UNROBUST_STATS
                      THEN SAFE_LIMIT_HIGH ELSE GOLD_LIMIT_DEFAULT
    IN /\ ~HasBlockedKeyword(event.reason)
       /\ event.action = "gain" =>
            /\ event.type = "gold" => ~(val > gold_limit)
            /\ event.type = "stat" => ~(val > SAFE_LIMIT_HIGH)
            /\ event.type = "item" => ~(qty > ITEM_QTY_LIMIT)

\* LedgerEngine._validate_security_rules: is_safe
validate_security_rules(event) ==
    LET val == CleanNumber(IF event.value.k = "none" THEN Num(0) ELSE event.value)
        qty == CleanNumber(IF event.qty.k = "none" THEN Num(1) ELSE event.qty)
        gold_limit == IF UpperName(event.unit) \in UNROBUST_STATS
                      THEN SAFE_LIMIT_HIGH ELSE GOLD_LIMIT_DEFAULT
        stat_limit == IF UpperName(event.name) \in UNROBUST_STATS
                      THEN SAFE_LIMIT_HIGH ELSE SAFE_LIMIT_STD
    IN /\ ~HasBlockedKeyword(event.reason)
       /\ event.action = "gain" =>
            /\ event.type = "gold" => ~(val > gold_limit)
            /\ event.type = "stat" => ~(val > stat_limit)
            /\ event.type = "item" => ~(qty > ITEM_QTY_LIMIT)

-----------------------------------------------------------------------------
(* The ledger.  cached_state and events_hash are sequences of length 0     *)
(* (None) or 1.  The hash of the event list is modelled by the list        *)
(* itself (no collisions).  file is the persisted log at save_path; the    *)
(* .backup sibling, which the ledger never reads, is not modelled.         *)

NoFile == [exists |-> FALSE, events |-> <<>>, last_event_id |-> 0,
           active_buffs |-> <<>>]

\* load_events taking the events of the file and not its last_event_id
load_events_resets_counter(L) ==
    IF L.save_path # "memory" /\ L.file.exists
    THEN [L EXCEPT !.events = L.file.events,
                   !.event_id_counter = 0,
                   !.temporal_state = TemporalFromDict(@, L.file.active_buffs)]
    ELSE [L EXCEPT !.events = <<>>, !.event_id_counter = 0]

\* LedgerEngine.load_events
load_events(L) ==
    IF L.save_path = "memory"
    THEN [L EXCEPT !.events = <<>>, !.event_id_counter = 0]
    ELSE IF L.file.exists
    THEN [L EXCEPT !.events = L.file.events,
                   !.event_id_counter = L.file.last_event_id,
                   !.temporal_state = TemporalFromDict(@, L.file.active_buffs)]
    ELSE [L EXCEPT !.events = <<>>, !.event_id_counter = 0]

\* LedgerEngine.__init__ with no file at save_path yet
NewLedger(save_path, strict_mode) ==
    load_events([save_path |-> save_path, strict_mode |-> strict_mode,
                 events |-> <<>>, event_id_counter |-> 0,
                 cached_state |-> <<>>, events_hash |-> <<>>,
                 temporal_state |-> InitTemporal, rule_engine |-> InitRules,
                 formula_engine |-> InitFormulas,
                 file |-> NoFile])

\* what a persistence write can come to: "ok", the file is replaced; "failed",
\* the temp-file write or the rename raises, which _auto_save swallows;
\* "raised", os.makedirs raises, which _auto_save lets through
WRITE_OUTCOMES == {"ok", "failed", "raised"}

\* _auto_save raises out of the call
SaveRaises(L, write) == L.save_path # "memory" /\ write = "raised"

\* LedgerEngine._auto_save, the ledger after it
auto_save(L, write) ==
    IF L.save_path = "memory" \/ write # "ok" THEN L
    ELSE [L EXCEPT !.file = [exists |-> TRUE, events |-> L.events,
                             last_event_id |-> L.event_id_counter,
                             active_buffs |-> TemporalToDict(L.temporal_state)]]

\* The steps of _auto_save on the files.  A file is the data serialized
\* into it and the number of chunks of its text written so far; it can be
\* parsed when all WriteChunks chunks are there.  D holds the target file
\* at save_path, the .tmp and .backup siblings, the step the write is at
\* and whether the process has crashed.
NoText == [exists |-> FALSE, data |-> NoFile, written |-> 0]

IdleDisk == [pc |-> "idle", target |-> NoText, tmp |-> NoText,
             backup |-> NoText, crashed |-> FALSE]

\* the dictionary that _auto_save serializes
Serialized(L) == auto_save(L, "ok").file

\* json.load of a file: whether it parses, and what it gives
Parseable(text) == text.exists => text.written = WriteChunks
ReadText(text) == IF text.exists THEN text.data ELSE NoFile

\* shutil.copy(save_path, backup_path), which may fail with OSError
save_backup(D, copy_ok) ==
    [D EXCEPT !.backup = IF D.target.exists /\ copy_ok THEN D.target ELSE @,
              !.pc = "open"]

\* open(temp_path, 'w'): the temp file is created or truncated
save_open(D, data) ==
    [D EXCEPT !.tmp = [exists |-> TRUE, data |-> data, written |-> 0],
              !.pc = "write"]

\* json.dump written straight into the target file
save_write_in_place(D) ==
    [D EXCEPT !.tmp.written = @ + 1,
              !.target = [D.tmp EXCEPT !.written = @ + 1],
              !.pc = IF D.tmp.written + 1 = WriteChunks THEN "replace" ELSE "write"]

\* json.dump into the temp file, one chunk of text at a time
save_write(D) ==
    [D EXCEPT !.tmp.written = @ + 1,
              !.pc = IF D.tmp.written + 1 = WriteChunks THEN "replace" ELSE "write"]

\* os.replace(temp_path, save_path)
save_replace(D) ==
    [D EXCEPT !.target = D.tmp, !.tmp = NoText, !.pc = "idle"]

\* LedgerEngine._invalidate_cache
invalidate_cache(L) == [L EXCEPT !.events_hash = <<>>]

\* the strict-mode checks on a tentative state
NegativeGold(L, state) == L.strict_mode /\ state.gold_cp < 0
NegativeItem(L, state) ==
    L.strict_mode /\ \E item \in DOMAIN state.inventory : state.inventory[item] < 0
NegativeStat(L, state) ==
    L.strict_mode /\ \E stat \in DOMAIN state.stats : state.stats[stat] < 0

\* a tentative state breaks a strict-mode check of add_event
Rejected(L, r) ==
    \/ r.err
    \/ NegativeGold(L, r.state)
    \/ NegativeItem(L, r.state)
    \/ NegativeStat(L, r.state)

\* a tentative state breaks a strict-mode check of process_batch,
\* modify_event, delete_event or delete_events
Conflict(L, r) ==
    \/ r.err
    \/ NegativeGold(L, r.state)
    \/ NegativeItem(L, r.state)

\* the ledger after a trial replay r of the committed events plus added
\* new ones, c being the id counter: what the replay wrote into the committed
\* event dictionaries stays
AfterTrial(L, c, r) ==
    [L EXCEPT !.event_id_counter = c,
              !.events = SubSeq(r.events, 1, Len(L.events)),
              !.temporal_state = r.ts]

\* the new events are appended, the cache is invalidated, the log is saved
Commit(L, c, r, write) ==
    auto_save(invalidate_cache([AfterTrial(L, c, r) EXCEPT !.events = r.events]),
              write)

\* LedgerEngine.add_event.  ok is the success flag returned; exc = an
\* exception escaped the call.  The replay runs on the committed event
\* dictionaries themselves, so what it wrote into them stays in the log.
add_event(L, event, write) ==
    With(L.event_id_counter + 1, LAMBDA c :
      With(apply_rules(L.rule_engine, [event EXCEPT !.event_id = c]), LAMBDA ar :
        IF ar.raised
        THEN [L |-> [L EXCEPT !.event_id_counter = c], ok |-> FALSE, exc |-> TRUE]
        ELSE With(reduce(L.strict_mode, Append(L.events, ar.e), L.temporal_state),
                  LAMBDA r :
               IF Rejected(L, r)
               THEN [L |-> AfterTrial(L, c, r), ok |-> FALSE, exc |-> FALSE]
               ELSE [L |-> Commit(L, c, r, write),
                     ok |-> ~SaveRaises(L, write),
                     exc |-> SaveRaises(L, write)])))

\* the index of the first transaction that fails security validation, 0 if none
FirstUnsafe(transactions) ==
    IF \E i \in DOMAIN transactions : ~validate_security_rules(transactions[i])
    THEN CHOOSE i \in DOMAIN transactions :
            /\ ~validate_security_rules(transactions[i])
            /\ \A j \in 1..(i - 1) : validate_security_rules(transactions[j])
    ELSE 0

\* the events process_batch builds from the first n transactions
EventsToAdd(L, transactions, n) ==
    [i \in 1..n |-> [transactions[i] EXCEPT !.event_id = L.event_id_counter + i]]

\* process_batch, were the transactions ahead of a blocked one committed
process_batch_partial(L, transactions, write) ==
    With(FirstUnsafe(transactions), LAMBDA bad :
      With(IF bad = 0 THEN Len(transactions) ELSE bad - 1, LAMBDA n :
        With(reduce(L.strict_mode, L.events \o EventsToAdd(L, transactions, n),
                    L.temporal_state), LAMBDA r :
          IF Conflict(L, r)
          THEN [L |-> AfterTrial(L, L.event_id_counter + n, r),
                ok |-> FALSE, exc |-> FALSE]
          ELSE [L |-> Commit(L, L.event_id_counter + n, r, write),
                ok |-> bad = 0 /\ ~SaveRaises(L, write),
                exc |-> SaveRaises(L, write)])))

\* LedgerEngine.process_batch
process_batch(L, transactions, write) ==
    With(FirstUnsafe(transactions), LAMBDA bad :
      IF bad # 0
      THEN [L |-> [L EXCEPT !.event_id_counter = @ + bad - 1],
            ok |-> FALSE, exc |-> FALSE]
      ELSE With(reduce(L.strict_mode,
                       L.events \o EventsToAdd(L, transactions, Len(transactions)),
                       L.temporal_state), LAMBDA r :
             IF Conflict(L, r)
             THEN [L |-> AfterTrial(L, L.event_id_counter + Len(transactions), r),
                   ok |-> FALSE, exc |-> FALSE]
             ELSE [L |-> Commit(L, L.event_id_counter + Len(transactions), r,
                                write),
                   ok |-> ~SaveRaises(L, write),
                   exc |-> SaveRaises(L, write)]))

\* the index of the first event that carries event_id, 0 if there is none
IndexOfId(events, event_id) ==
    IF \E i \in DOMAIN events : events[i].event_id = event_id
    THEN CHOOSE i \in DOMAIN events :
            /\ events[i].event_id = event_id
            /\ \A j \in 1..(i - 1) : events[j].event_id # event_id
    ELSE 0

\* dict.update(new_data)
Update(e, new_data) ==
    [f \in DOMAIN e |-> IF f \in DOMAIN new_data THEN new_data[f] ELSE e[f]]

\* the ledger after a replay r of its own list of events
Replayed(L, r) == [L EXCEPT !.events = r.events, !.temporal_state = r.ts]

\* the replay of modify_event on the event at index i patched with new_data
PatchedReplay(L, i, new_data) ==
    reduce(L.strict_mode, [L.events EXCEPT ![i] = Update(@, new_data)],
           L.temporal_state)

\* modify_event, were a rejected patch not followed by the reload
modify_event_no_reload(L, event_id, new_data, write) ==
    With(IndexOfId(L.events, event_id), LAMBDA i :
      IF i = 0 THEN [L |-> L, ok |-> FALSE, exc |-> FALSE]
      ELSE With(PatchedReplay(L, i, new_data), LAMBDA r :
             IF Conflict(L, r)
             THEN [L |-> Replayed(L, r), ok |-> FALSE, exc |-> FALSE]
             ELSE IF SaveRaises(L, write)
             THEN [L |-> invalidate_cache(Replayed(L, r)),
                   ok |-> FALSE, exc |-> FALSE]
             ELSE [L |-> auto_save(invalidate_cache(Replayed(L, r)), write),
                   ok |-> TRUE, exc |-> FALSE]))

\* LedgerEngine.modify_event
modify_event(L, event_id, new_data, write) ==
    With(IndexOfId(L.events, event_id), LAMBDA i :
      IF i = 0 THEN [L |-> L, ok |-> FALSE, exc |-> FALSE]
      ELSE With(PatchedReplay(L, i, new_data), LAMBDA r :
             IF Conflict(L, r)
             THEN [L |-> load_events(Replayed(L, r)), ok |-> FALSE, exc |-> FALSE]
             ELSE IF SaveRaises(L, write)
             THEN [L |-> load_events(invalidate_cache(Replayed(L, r))),
                   ok |-> FALSE, exc |-> FALSE]
             ELSE [L |-> auto_save(invalidate_cache(Replayed(L, r)), write),
                   ok |-> TRUE, exc |-> FALSE]))

\* the events of original, in order, as they are in the replayed list kept
\* (the same dictionaries), the removed ones as they were
RestoreOriginal(original, removed, kept_after) ==
    [i \in DOMAIN original |->
        IF i \in removed THEN original[i]
        ELSE kept_after[Cardinality({j \in 1..i : j \notin removed})]]

\* Deleted without the restore of original_events on failure
Deleted_keeps_removed(L, removed, r, write) ==
    IF Conflict(L, r) \/ SaveRaises(L, write)
    THEN [L |-> Replayed(L, r), ok |-> FALSE, exc |-> FALSE]
    ELSE [L |-> auto_save(invalidate_cache(Replayed(L, r)), write),
          ok |-> TRUE, exc |-> FALSE]

\* the end of delete_event and delete_events: removed holds the indices
\* taken out of the list, r is the replay of the rest
Deleted(L, removed, r, write) ==
    IF Conflict(L, r)
    THEN [L |-> [Replayed(L, r) EXCEPT
                   !.events = RestoreOriginal(L.events, removed, r.events)],
          ok |-> FALSE, exc |-> FALSE]
    ELSE IF SaveRaises(L, write)
    THEN [L |-> [invalidate_cache(Replayed(L, r)) EXCEPT
                   !.events = RestoreOriginal(L.events, removed, r.events)],
          ok |-> FALSE, exc |-> FALSE]
    ELSE [L |-> auto_save(invalidate_cache(Replayed(L, r)), write),
          ok |-> TRUE, exc |-> FALSE]

\* delete_event dropping the cache before it looks for the id
delete_event_drops_cache(L, event_id, write) ==
    With(IndexOfId(L.events, event_id), LAMBDA i :
      IF i = 0 THEN [L |-> invalidate_cache(L), ok |-> FALSE, exc |-> FALSE]
      ELSE Deleted(L, {i},
                   reduce(L.strict_mode, RemoveAt(L.events, i), L.temporal_state),
                   write))

\* LedgerEngine.delete_event
delete_event(L, event_id, write) ==
    With(IndexOfId(L.events, event_id), LAMBDA i :
      IF i = 0 THEN [L |-> L, ok |-> FALSE, exc |-> FALSE]
      ELSE Deleted(L, {i},
                   reduce(L.strict_mode, RemoveAt(L.events, i), L.temporal_state),
                   write))

\* LedgerEngine.delete_events
delete_events(L, event_ids, write) ==
    With({i \in DOMAIN L.events : L.events[i].event_id \in event_ids},
         LAMBDA removed :
      IF removed = {} THEN [L |-> L, ok |-> TRUE, exc |-> FALSE]
      ELSE Deleted(L, removed,
                   reduce(L.strict_mode,
                          SelectSeq(L.events, LAMBDA e : e.event_id \notin event_ids),
                          L.temporal_state),
                   write))

\* LedgerEngine.get_state: the hash is taken before the replay, which may
\* then write into the events
get_state(L) ==
    IF L.events_hash = <<L.events>>
    THEN [L |-> L, ok |-> TRUE, exc |-> FALSE]
    ELSE With(reduce(L.strict_mode, L.events, L.temporal_state), LAMBDA r :
           IF r.err THEN [L |-> Replayed(L, r), ok |-> FALSE, exc |-> TRUE]
           ELSE [L |-> [Replayed(L, r) EXCEPT !.cached_state = <<r.state>>,
                                              !.events_hash = <<L.events>>],
                 ok |-> TRUE, exc |-> FALSE])

-----------------------------------------------------------------------------
(* The calls a client makes.                                               *)

NoReason == <<>>
Loot == <<"l","o","o","t">>
CheatCode == <<"C","h","e","a","t","_","C","o","d","e","!">>

Gold(action, value, unit, reason) ==
    Event("gold", action, value, unit, NoName, Absent, reason)
Stat(action, name, value) ==
    Event("stat", action, value, "", name, Absent, NoReason)
Item(action, name, qty) ==
    Event("item", action, Absent, "", name, qty, NoReason)
Buff(name, effects, expiry_type, expiry_value) ==
    [Event("buff", "gain", Absent, "", name, Absent, NoReason)
        EXCEPT !.effects = effects, !.expiry_type = expiry_type,
               !.expiry_value = expiry_value]
ChapterStart == Event("chapter_start", "", Absent, "", NoName, Absent, NoReason)

GainGold == Gold("gain", Num(5), "CP", Loot)
LoseGold == Gold("lose", Num(3), "CP", NoReason)
SetGoldNegative == Gold("set", Num(-1), "CP", NoReason)
CheatGold == Gold("gain", Num(2), "CP", CheatCode)
LoseStat == Stat("lose", "Strength", Num(1))
PermanentBuff == Buff("Aura", [Strength |-> Num(1)], "permanent", 0)
ChapterBuff == Buff("Haste", [Strength |-> Num(1)], "chapter", 2)

HealthPotion1 == Item("gain", HP1, Num(1))
HealthPotion2 == Item("gain", HP2, Num(1))
HealthPotion == Item("gain", HP, Num(1))
UsePotion2 == Item("lose", HP2, Num(1))
UsePotion == Item("lose", HP, Num(1))

\* a profile names the arguments a specification draws and its bounds;
\* writes holds the outcomes of the persistence write it considers
Profile(cands, batches, patches, writes, maxLog, maxId, maxLines) ==
    [cands |-> cands, batches |-> batches, patches |-> patches,
     writes |-> writes,
     maxLog |-> maxLog, maxId |-> maxId, maxLines |-> maxLines]

\* the outcomes of the persistence write that can be told apart
WriteOutcomes(L, P) == IF L.save_path = "memory" THEN {"ok"} ELSE P.writes

InBounds(L, P) ==
    /\ Len(L.events) <= P.maxLog
    /\ L.event_id_counter <= P.maxId
    /\ L.temporal_state.buff_id_counter <= MaxBuffId
    /\ \A i \in DOMAIN L.events : Len(L.events[i].logs) <= P.maxLines

Result(op, r, rt, arg, ids) ==
    [op |-> op, ok |-> r.ok, exc |-> r.exc, arg |-> arg, ids |-> ids,
     twin_ok |-> rt.ok, twin_exc |-> rt.exc]

\* a call on the ledger under test alone
Call(op, r, arg, ids, P) ==
    /\ led' = r.L
    /\ last' = Result(op, r, r, arg, ids)
    /\ UNCHANGED <<twin, disk>>
    /\ InBounds(led', P)

AddEvent(P) ==
    \E ev \in P.cands, w \in WriteOutcomes(led, P) :
        Call("add_event", add_event(led, ev, w), <<ev>>, {}, P)

ProcessBatch(P) ==
    \E txs \in P.batches, w \in WriteOutcomes(led, P) :
        Call("process_batch", process_batch(led, txs, w), txs, {}, P)

ModifyEvent(P) ==
    \E id \in 1..P.maxId, p \in P.patches, w \in WriteOutcomes(led, P) :
        Call("modify_event", modify_event(led, id, p, w), <<p>>, {id}, P)

DeleteEvent(P) ==
    \E id \in 1..P.maxId, w \in WriteOutcomes(led, P) :
        Call("delete_event", delete_event(led, id, w), <<>>, {id}, P)

DeleteEvents(P) ==
    \E ids \in SUBSET (1..P.maxId), w \in WriteOutcomes(led, P) :
        Call("delete_events", delete_events(led, ids, w), <<>>, ids, P)

GetState(P) ==
    Call("get_state", get_state(led), <<>>, {}, P)

\* candidate rules: doubling of gold amounts, with and without a condition
RuleCandidates == {[target_type |-> "gold", operation |-> "multiply",
                    modifier |-> 2, condition |-> c] :
                      c \in {NoCondition, Condition("chapter > 3")}}

NoCall == [op |-> "init", ok |-> TRUE, exc |-> FALSE, arg |-> <<>>, ids |-> {},
           twin_ok |-> TRUE, twin_exc |-> FALSE]

AddRule ==
    \E rc \in RuleCandidates :
        /\ Len(led.rule_engine.active_rules) < MaxRules
        /\ led' = [led EXCEPT !.rule_engine =
                      add_rule(@, rc.target_type, rc.operation, rc.modifier,
                               rc.condition)]
        /\ last' = [NoCall EXCEPT !.op = "add_rule"]
        /\ UNCHANGED <<twin, disk>>

\* the same call on the file-backed ledger and on its memory-only twin
TwinCall(op, r, rt, arg, ids, P) ==
    /\ led' = r.L
    /\ twin' = rt.L
    /\ last' = Result(op, r, rt, arg, ids)
    /\ UNCHANGED disk
    /\ InBounds(led', P)
    /\ InBounds(twin', P)

TwinAddEvent(P) ==
    \E ev \in P.cands :
        TwinCall("add_event", add_event(led, ev, "ok"), add_event(twin, ev, "ok"),
                 <<ev>>, {}, P)

TwinProcessBatch(P) ==
    \E txs \in P.batches :
        TwinCall("process_batch", process_batch(led, txs, "ok"),
                 process_batch(twin, txs, "ok"), txs, {}, P)

TwinModifyEvent(P) ==
    \E id \in 1..P.maxId, p \in P.patches :
        TwinCall("modify_event", modify_event(led, id, p, "ok"),
                 modify_event(twin, id, p, "ok"), <<p>>, {id}, P)

TwinDeleteEvent(P) ==
    \E id \in 1..P.maxId :
        TwinCall("delete_event", delete_event(led, id, "ok"),
                 delete_event(twin, id, "ok"), <<>>, {id}, P)

TwinDeleteEvents(P) ==
    \E ids \in SUBSET (1..P.maxId) :
        TwinCall("delete_events", delete_events(led, ids, "ok"),
                 delete_events(twin, ids, "ok"), <<>>, ids, P)

-----------------------------------------------------------------------------
(* Spec: the accounting calls on a strict or draft memory-only ledger.     *)

MainProfile ==
    Profile({GainGold, LoseGold, SetGoldNegative, LoseStat},
            {<<GainGold>>, <<LoseStat>>, <<GainGold, CheatGold>>,
             <<GainGold, LoseGold>>, <<LoseGold, GainGold>>},
            {[value |-> Num(1)]}, {"ok"},
            MaxLog, MaxEventId, MaxLogLines)

Init ==
    /\ led \in {NewLedger("memory", s) : s \in BOOLEAN}
    /\ twin = NewLedger("memory", FALSE)
    /\ last = NoCall
    /\ disk = IdleDisk

Next ==
    \/ AddEvent(MainProfile)
    \/ ProcessBatch(MainProfile)
    \/ ModifyEvent(MainProfile)
    \/ DeleteEvent(MainProfile)
    \/ DeleteEvents(MainProfile)

Spec == Init /\ [][Next]_vars

-----------------------------------------------------------------------------
(* SpecIntake: rules, blocked reasons and buffs on a draft, memory-only    *)
(* ledger.                                                                 *)

IntakeProfile ==
    Profile({GainGold, LoseGold, CheatGold, PermanentBuff, ChapterStart},
            {<<GainGold>>, <<GainGold, CheatGold>>, <<GainGold, GainGold>>},
            {}, {"ok"}, MaxLog, MaxEventId, MaxLogLines)

InitIntake ==
    /\ led = NewLedger("memory", FALSE)
    /\ twin = NewLedger("memory", FALSE)
    /\ last = NoCall
    /\ disk = IdleDisk

NextIntake ==
    \/ AddRule
    \/ AddEvent(IntakeProfile)
    \/ ProcessBatch(IntakeProfile)
    \/ GetState(IntakeProfile)

SpecIntake == InitIntake /\ [][NextIntake]_vars

-----------------------------------------------------------------------------
(* SpecItems: inventory events with similar names on a strict,             *)
(* memory-only ledger.                                                     *)

ItemProfile ==
    Profile({HealthPotion1, HealthPotion2, HealthPotion, UsePotion2, UsePotion,
             LoseGold},
            {}, {}, {"ok"}, MaxItemLog, MaxItemEventId, MaxItemLogLines)

InitItems ==
    /\ led = NewLedger("memory", TRUE)
    /\ twin = NewLedger("memory", FALSE)
    /\ last = NoCall
    /\ disk = IdleDisk

NextItems ==
    \/ AddEvent(ItemProfile)
    \/ DeleteEvent(ItemProfile)

SpecItems == InitItems /\ [][NextItems]_vars

-----------------------------------------------------------------------------
(* SpecDisk: a strict, file-backed ledger whose writes may fail.           *)

DiskProfile ==
    Profile({GainGold, LoseGold}, {}, {[value |-> Num(1)]}, {"ok", "failed"},
            MaxLog, MaxEventId, MaxLogLines)

InitDisk ==
    /\ led = NewLedger("file", TRUE)
    /\ twin = NewLedger("memory", FALSE)
    /\ last = NoCall
    /\ disk = IdleDisk

NextDisk ==
    \/ AddEvent(DiskProfile)
    \/ ModifyEvent(DiskProfile)
    \/ DeleteEvent(DiskProfile)

SpecDisk == InitDisk /\ [][NextDisk]_vars

-----------------------------------------------------------------------------
(* SpecTwin: the same calls on a file-backed ledger whose writes succeed   *)
(* and on a memory-only ledger.                                            *)

TwinProfile ==
    Profile({GainGold, LoseGold},
            {<<GainGold>>, <<GainGold, LoseGold>>},
            {[value |-> Num(1)]}, {"ok"},
            MaxLog, MaxEventId, MaxLogLines)

InitTwin ==
    /\ \E s \in BOOLEAN :
          /\ led = NewLedger("file", s)
          /\ twin = NewLedger("memory", s)
    /\ last = NoCall
    /\ disk = IdleDisk

NextTwin ==
    \/ TwinAddEvent(TwinProfile)
    \/ TwinProcessBatch(TwinProfile)
    \/ TwinModifyEvent(TwinProfile)
    \/ TwinDeleteEvent(TwinProfile)
    \/ TwinDeleteEvents(TwinProfile)

SpecTwin == InitTwin /\ [][NextTwin]_vars

-----------------------------------------------------------------------------
(* SpecBuffs: chapter buffs and chapter markers on a draft, memory-only    *)
(* ledger.                                                                 *)

BuffProfile ==
    Profile({ChapterBuff, ChapterStart, GainGold}, {}, {}, {"ok"},
            MaxBuffLog, MaxBuffEventId, MaxLogLines)

InitBuffs ==
    /\ led = NewLedger("memory", FALSE)
    /\ twin = NewLedger("memory", FALSE)
    /\ last = NoCall
    /\ disk = IdleDisk

NextBuffs ==
    \/ AddEvent(BuffProfile)
    \/ GetState(BuffProfile)

SpecBuffs == InitBuffs /\ [][NextBuffs]_vars

-----------------------------------------------------------------------------
(* SpecWrites: the mutating calls on a strict, file-backed ledger whose    *)
(* writes may succeed, fail inside _auto_save or raise out of it.          *)

WritesProfile ==
    Profile({GainGold, LoseGold}, {<<GainGold>>, <<GainGold, LoseGold>>},
            {[value |-> Num(1)]}, WRITE_OUTCOMES,
            MaxLog, MaxEventId, MaxLogLines)

InitWrites ==
    /\ led = NewLedger("file", TRUE)
    /\ twin = NewLedger("memory", FALSE)
    /\ last = NoCall
    /\ disk = IdleDisk

NextWrites ==
    \/ AddEvent(WritesProfile)
    \/ ProcessBatch(WritesProfile)
    \/ ModifyEvent(WritesProfile)
    \/ DeleteEvent(WritesProfile)
    \/ DeleteEvents(WritesProfile)

SpecWrites == InitWrites /\ [][NextWrites]_vars

-----------------------------------------------------------------------------
(* SpecCrash: the persistence write taken step by step on a strict,        *)
(* file-backed ledger; the process may crash at any step and is then       *)
(* started again from the target file.  A call's result is fixed when it   *)
(* enters _auto_save; the coarse file of the ledger follows the target     *)
(* file at the rename.                                                     *)

CrashProfile ==
    Profile({GainGold, LoseGold}, {}, {}, {"failed"},
            MaxLog, MaxEventId, MaxLogLines)

InitCrash ==
    /\ led = NewLedger("file", TRUE)
    /\ twin = NewLedger("memory", FALSE)
    /\ last = NoCall
    /\ disk = IdleDisk

\* a call up to the entry of _auto_save; a rejected call does not save
EnterSave(op, r, arg, ids, P) ==
    /\ disk.pc = "idle"
    /\ ~disk.crashed
    /\ led' = r.L
    /\ last' = Result(op, r, r, arg, ids)
    /\ disk' = IF r.ok THEN [disk EXCEPT !.pc = "backup"] ELSE disk
    /\ UNCHANGED twin
    /\ InBounds(led', P)

CrashAddEvent ==
    \E ev \in CrashProfile.cands :
        EnterSave("add_event", add_event(led, ev, "failed"), <<ev>>, {},
                  CrashProfile)

CrashDeleteEvent ==
    \E id \in 1..CrashProfile.maxId :
        EnterSave("delete_event", delete_event(led, id, "failed"), <<>>, {id},
                  CrashProfile)

SaveBackup ==
    /\ disk.pc = "backup"
    /\ ~disk.crashed
    /\ \E copy_ok \in BOOLEAN : disk' = save_backup(disk, copy_ok)
    /\ UNCHANGED <<led, twin, last>>

SaveOpen ==
    /\ disk.pc = "open"
    /\ ~disk.crashed
    /\ disk' = save_open(disk, Serialized(led))
    /\ UNCHANGED <<led, twin, last>>

SaveWrite ==
    /\ disk.pc = "write"
    /\ ~disk.crashed
    /\ disk' = save_write(disk)
    /\ UNCHANGED <<led, twin, last>>

SaveReplace ==
    /\ disk.pc = "replace"
    /\ ~disk.crashed
    /\ disk' = save_replace(disk)
    /\ led' = auto_save(led, "ok")
    /\ UNCHANGED <<twin, last>>

\* open, json.dump or os.replace raises; _auto_save prints and returns
SaveError ==
    /\ disk.pc \in {"open", "write", "replace"}
    /\ ~disk.crashed
    /\ disk' = [disk EXCEPT !.pc = "idle"]
    /\ UNCHANGED <<led, twin, last>>

\* the process dies in the middle of _auto_save
Crash ==
    /\ disk.pc # "idle"
    /\ ~disk.crashed
    /\ disk' = [disk EXCEPT !.crashed = TRUE]
    /\ UNCHANGED <<led, twin, last>>

\* a new LedgerEngine on the same save_path: __init__ calls load_events,
\* whose json.load needs a file that parses
Restart ==
    /\ disk.crashed
    /\ Parseable(disk.target)
    /\ led' = load_events([NewLedger("file", led.strict_mode)
                              EXCEPT !.file = ReadText(disk.target)])
    /\ disk' = [disk EXCEPT !.crashed = FALSE, !.pc = "idle"]
    /\ last' = [NoCall EXCEPT !.op = "restart"]
    /\ UNCHANGED twin

NextCrash ==
    \/ CrashAddEvent
    \/ CrashDeleteEvent
    \/ SaveBackup
    \/ SaveOpen
    \/ SaveWrite
    \/ SaveReplace
    \/ SaveError
    \/ Crash
    \/ Restart

SpecCrash == InitCrash /\ [][NextCrash]_vars

-----------------------------------------------------------------------------
(* SpecFormula: registrations, evaluations and dirty marks on the Formula  *)
(* Engine of a ledger.                                                     *)

BTimesTwo == Bin("*", Var("B"), Lit(2))
AOverTwo == Bin("/", Var("A"), Lit(2))
APlusOne == Bin("+", Var("A"), Lit(1))
XPlusOne == Bin("+", Var("x"), Lit(1))
XOverY == Bin("/", Var("x"), Var("y"))
XFloorY == Bin("//", Var("x"), Var("y"))
XPowerY == Bin("**", Var("x"), Var("y"))
XUnclosed == Malformed(<<"x">>)
PowerOfX == Fn("pow", <<Var("x"), Lit(2)>>)
AbsOfX == Fn("abs", <<Var("x")>>)

FormulaNames == {"A", "B", "C"}
FormulaExprs == {BTimesTwo, AOverTwo, APlusOne, XPlusOne, XOverY, XFloorY,
                 XPowerY, XUnclosed, PowerOfX, AbsOfX}
FormulaContexts == {[x |-> 6, y |-> v] : v \in {0, 4, 101}} \cup {[x |-> 6]}

InitFormula ==
    /\ led = NewLedger("memory", FALSE)
    /\ twin = NewLedger("memory", FALSE)
    /\ last = NoCall
    /\ disk = IdleDisk

\* a call on the Formula Engine of the ledger
FormulaCall(op, r, arg) ==
    /\ led' = [led EXCEPT !.formula_engine = r.fe]
    /\ last' = [NoCall EXCEPT !.op = op, !.ok = r.raised = "", !.exc = r.raised # "",
                              !.arg = arg, !.ids = {<<r.raised, r.cause, r.value>>}]
    /\ UNCHANGED <<twin, disk>>

\* what the caller of register_formula sees
RegisterOutcome(r) ==
    [fe |-> r.fe,
     raised |-> IF r.raised THEN "ValueError" ELSE "",
     cause |-> IF r.raised THEN "circular dependency" ELSE "",
     value |-> NoValue]

RegisterFormula ==
    \E field_name \in FormulaNames, expression \in FormulaExprs :
        FormulaCall("register_formula",
                    RegisterOutcome(register_formula(led.formula_engine,
                                                     field_name, expression)),
                    <<field_name, expression>>)

Recalculate ==
    \E field_name \in FormulaNames, context \in FormulaContexts :
        FormulaCall("recalculate",
                    recalculate(led.formula_engine, field_name, context),
                    <<field_name, context>>)

MarkDirty ==
    \E base_field \in FormulaNames \cup {"x", "y"} :
        FormulaCall("mark_dirty",
                    [fe |-> mark_dirty(led.formula_engine, base_field),
                     raised |-> "", cause |-> "", value |-> NoValue],
                    <<base_field>>)

NextFormula ==
    \/ RegisterFormula
    \/ Recalculate
    \/ MarkDirty

SpecFormula == InitFormula /\ [][NextFormula]_vars

-----------------------------------------------------------------------------
(* SpecCache: every call, get_state included, on a strict or draft         *)
(* file-backed ledger whose writes succeed.                                *)

CacheProfile ==
    Profile({GainGold, LoseGold}, {<<GainGold, LoseGold>>},
            {[value |-> Num(1)]}, {"ok"},
            MaxLog, MaxEventId, MaxLogLines)

InitCache ==
    /\ led \in {NewLedger("file", s) : s \in BOOLEAN}
    /\ twin = NewLedger("memory", FALSE)
    /\ last = NoCall
    /\ disk = IdleDisk

NextCache ==
    \/ AddEvent(CacheProfile)
    \/ ProcessBatch(CacheProfile)
    \/ ModifyEvent(CacheProfile)
    \/ DeleteEvent(CacheProfile)
    \/ DeleteEvents(CacheProfile)
    \/ GetState(CacheProfile)

SpecCache == InitCache /\ [][NextCache]_vars

-----------------------------------------------------------------------------
(* SpecRules: chains of rules and events whose value may not be a number   *)
(* on a strict or draft memory-only ledger.                                *)

TbdGold == Gold("gain", Tbd, "CP", NoReason)
JunkGold == Gold("gain", Junk, "CP", NoReason)

\* candidate rules: three targets, each with no condition, an empty one and
\* a written one
ChainCandidates ==
    {[target_type |-> t.target_type, operation |-> t.operation,
      modifier |-> t.modifier, condition |-> c] :
        t \in {[target_type |-> "gold", operation |-> "multiply", modifier |-> 2],
               [target_type |-> "any", operation |-> "add", modifier |-> 1],
               [target_type |-> "item", operation |-> "set", modifier |-> 7]},
        c \in {NoCondition, Condition(""), Condition("chapter > 3")}}

RulesProfile ==
    Profile({GainGold, TbdGold, JunkGold, HealthPotion}, {}, {}, {"ok"},
            MaxLog, MaxEventId, MaxLogLines)

InitRulesSpec ==
    /\ led \in {NewLedger("memory", s) : s \in BOOLEAN}
    /\ twin = led
    /\ last = NoCall
    /\ disk = IdleDisk

AddRuleChain ==
    \E rc \in ChainCandidates :
        /\ Len(led.rule_engine.active_rules) < MaxRuleChain
        /\ led' = [led EXCEPT !.rule_engine =
                      add_rule(@, rc.target_type, rc.operation, rc.modifier,
                               rc.condition)]
        /\ last' = [NoCall EXCEPT !.op = "add_rule"]
        /\ UNCHANGED <<twin, disk>>

NextRules ==
    \/ AddRuleChain
    \/ AddEvent(RulesProfile)

SpecRules == InitRulesSpec /\ [][NextRules]_vars

-----------------------------------------------------------------------------
(* SpecValues: events with negative, indeterminate and oversized amounts   *)
(* on a strict or draft memory-only ledger.                                *)

NegativeLoseGold == Gold("lose", Num(-2), "CP", NoReason)
NegativeGainGold == Gold("gain", Num(-2), "CP", NoReason)
NegativeLoseStat == Stat("lose", "Strength", Num(-1))
NegativeGainStat == Stat("gain", "Strength", Num(-1))
NegativeLoseItem == Item("lose", HP, Num(-1))
TbdStat == Stat("gain", "Strength", Tbd)
TbdItem == Item("gain", HP, Tbd)

\* gains at and above the caps of _validate_security_rules
GemsAtCap == Gold("gain", Num(GOLD_LIMIT_DEFAULT), "Gem", NoReason)
GemsOverCap == Gold("gain", Num(GOLD_LIMIT_DEFAULT + 1), "Gem", NoReason)
CopperOverHighCap == Gold("gain", Num(SAFE_LIMIT_HIGH + 1), "CP", NoReason)
StrengthOverCap == Stat("gain", "Strength", Num(SAFE_LIMIT_STD + 1))
XpOverStdCap == Stat("gain", "XP", Num(SAFE_LIMIT_STD + 1))
XpOverHighCap == Stat("gain", "XP", Num(SAFE_LIMIT_HIGH + 1))
PotionsOverCap == Item("gain", HP, Num(ITEM_QTY_LIMIT + 1))
TenGoldPieces == Gold("gain", Num(10), "GP", NoReason)

ValuesProfile ==
    Profile({GainGold, HealthPotion, NegativeLoseGold, NegativeGainGold,
             NegativeLoseStat, NegativeGainStat, NegativeLoseItem,
             TbdGold, TbdStat, TbdItem},
            {<<GainGold>>, <<GemsAtCap>>, <<XpOverStdCap>>, <<TenGoldPieces>>,
             <<GemsOverCap>>, <<GainGold, GemsOverCap>>, <<CopperOverHighCap>>,
             <<StrengthOverCap>>, <<GainGold, XpOverHighCap>>,
             <<HealthPotion, PotionsOverCap>>},
            {}, {"ok"}, MaxLog, MaxEventId, MaxLogLines)

InitValues ==
    /\ led \in {NewLedger("memory", s) : s \in BOOLEAN}
    /\ twin = led
    /\ last = NoCall
    /\ disk = IdleDisk

NextValues ==
    \/ AddEvent(ValuesProfile)
    \/ ProcessBatch(ValuesProfile)

SpecValues == InitValues /\ [][NextValues]_vars

-----------------------------------------------------------------------------
(* SpecUnits: breakdowns of base values by Unit Registries over valid      *)
(* schemas.  The registry is held in led.                                  *)

\* WorldSchema.custom(base "CP"): a unit twice the base and a unit half of it
half_units ==
    Schema("CP", <<Rate("Pair", Whole(2)), Rate("CP", Whole(1)),
                   Rate("Bit", Frac(1, 2))>>)

\* WorldSchema.custom(base "CP"): the base listed first, a higher unit and
\* its alias after it
base_first ==
    Schema("CP", <<Rate("CP", Whole(1)), Rate("Crown", Whole(5)),
                   Rate("Cr", Whole(5))>>)

UnitSchemas == {classic_fantasy, modern, half_units, base_first}

\* the values broken down: the multiples of 1/2 up to MaxBaseValue
BaseValues == {Frac(n, 2) : n \in 0..(2 * MaxBaseValue)}

UnitRegistry(schema) == [schema |-> schema]

InitUnits ==
    /\ led \in {UnitRegistry(s) : s \in {t \in UnitSchemas : validate(t)}}
    /\ twin = led
    /\ last = NoCall
    /\ disk = IdleDisk

FromBase ==
    \E v \in BaseValues :
        /\ last' = [NoCall EXCEPT !.op = "from_base", !.arg = <<v>>,
                                  !.ids = {from_base(led.schema, v)}]
        /\ UNCHANGED <<led, twin, disk>>

NextUnits == FromBase

SpecUnits == InitUnits /\ [][NextUnits]_vars

-----------------------------------------------------------------------------
(* SpecRegistry: register_unit calls on Unit Registries over valid schemas. *)

RegisteredNames == {"EP", "CP", "Cent"}
RegisteredRates == {Whole(50), Whole(1), Whole(0), Whole(-1)}

RegisterUnit ==
    \E u \in RegisteredNames, r \in RegisteredRates :
        /\ led' = [led EXCEPT !.schema = register_unit(@, u, r)]
        /\ last' = [NoCall EXCEPT !.op = "register_unit", !.arg = <<u, r>>]
        /\ UNCHANGED <<twin, disk>>

NextRegistry == RegisterUnit

SpecRegistry == InitUnits /\ [][NextRegistry]_vars

-----------------------------------------------------------------------------
(* The properties checked.                                                 *)

\* the committed log of L replayed by the ledger itself
Replay(L) == reduce(L.strict_mode, L.events, L.temporal_state)

\* the gold amount of event as add_event replays it on L, in base units
AmountAfterRules(L, event) ==
    LET e == apply_rules(L.rule_engine, event).e
    IN to_base(CleanNumber(e.value), IF e.unit = "" THEN "CP" ELSE e.unit)

\* event is a gold loss that exceeds the balance of L
Overdraws(L, event) ==
    /\ event.type = "gold"
    /\ event.action = "lose"
    /\ event.value.k = "num"
    /\ ~Replay(L).err
    /\ AmountAfterRules(L, event) > Replay(L).state.gold_cp

\* C1: reduce is deterministic: replaying the same event list twice on the
\* same ledger, with no call in between, yields the same State.
C1_ReduceTwiceSameState ==
    LET r1 == Replay(led)
        r2 == reduce(led.strict_mode, r1.events, r1.ts)
    IN (~r1.err /\ ~r2.err) => r2.state = r1.state

\* C2: a process_batch call that returns failure leaves the log with the
\* length and the event ids it had before the call.
C2_FailedBatchKeepsLog ==
    [][(last'.op = "process_batch" /\ ~last'.ok)
          => EventIds(led'.events) = EventIds(led.events)]_vars

\* a batch whose first transaction is safe and whose second is blocked was
\* refused on a ledger that holds events
C2_Witness ==
    /\ last.op = "process_batch"
    /\ ~last.ok
    /\ FirstUnsafe(last.arg) = 2
    /\ Len(led.events) > 0

\* C3: every event that add_event or process_batch commits went through the
\* Rule Engine exactly once: it is stored with the value and the audit trail
\* that one application of the active rules gives it.
C3_CommittedThroughRulesOnce ==
    [][(last'.op \in {"add_event", "process_batch"} /\ last'.ok)
          => \A i \in DOMAIN last'.arg :
                LET stored == led'.events[Len(led.events) + i]
                    ruled == apply_rules(led.rule_engine, last'.arg[i]).e
                IN /\ stored.value = ruled.value
                   /\ stored.applied_rules = ruled.applied_rules]_vars

\* C4: no event in the committed log has a reason that, lowercased and
\* stripped of non-alphanumerics, contains a blocked keyword.
C4_NoBlockedReasonCommitted ==
    \A i \in DOMAIN led.events : ~HasBlockedKeyword(led.events[i].reason)

\* C5: in strict mode add_event of a gold loss greater than the balance
\* returns failure and leaves the log unchanged (same length, same events).
C5_StrictOverdraftRejected ==
    [][(led.strict_mode /\ last'.op = "add_event" /\ Overdraws(led, last'.arg[1]))
          => (~last'.ok /\ led'.events = led.events)]_vars

\* C6: in draft mode add_event of a gold loss greater than the balance
\* succeeds, the committed event is flagged is_implicit and carries the
\* underflow warning, and get_state then reports a negative balance.
C6_DraftOverdraftCommitted ==
    [][(~led.strict_mode /\ last'.op = "add_event" /\ Overdraws(led, last'.arg[1]))
          => /\ last'.ok
             /\ Len(led'.events) = Len(led.events) + 1
             /\ led'.events[Len(led'.events)].event_id = led'.event_id_counter
             /\ led'.events[Len(led'.events)].is_implicit
             /\ <<"Warning: Gold underflow allowed in Draft Mode">>
                   \in Range(led'.events[Len(led'.events)].logs)
             /\ get_state(led').ok
             /\ get_state(led').L.cached_state[1].gold_cp < 0]_vars

\* a draft ledger has just committed an overdrawing gold loss
C6_Witness ==
    /\ ~led.strict_mode
    /\ last.op = "add_event"
    /\ last.ok
    /\ last.arg[1].type = "gold"
    /\ last.arg[1].action = "lose"
    /\ led.events[Len(led.events)].is_implicit
    /\ Replay(led).state.gold_cp < 0

\* C7: in strict mode, after any sequence of calls, replaying the committed
\* log gives a State whose gold and whose every inventory quantity is >= 0.
C7_StrictReplayNonNegative ==
    led.strict_mode =>
        /\ ~Replay(led).err
        /\ Replay(led).state.gold_cp >= 0
        /\ \A item \in DOMAIN Replay(led).state.inventory :
              Replay(led).state.inventory[item] >= 0

\* C8: in strict mode add_event, process_batch and modify_event each refuse
\* a mutation that would leave a base stat below zero.
C8_StrictStatRefused ==
    [][(led.strict_mode /\ last'.ok
          /\ last'.op \in {"add_event", "process_batch", "modify_event"}
          /\ ~Replay(led').err)
          => \A stat \in DOMAIN Replay(led').state.stats :
                Replay(led').state.stats[stat] >= 0]_vars

\* C9: after modify_event fails on a file-backed ledger whose file exists,
\* the in-memory log is the event list of that file.
C9_FailedModifyReloads ==
    [][(last'.op = "modify_event" /\ ~last'.ok
          /\ IndexOfId(led.events, CHOOSE id \in last'.ids : TRUE) # 0
          /\ led.save_path = "file" /\ led.file.exists)
          => (led'.events = led.file.events /\ led'.file = led.file)]_vars

\* a patch of a committed event was rejected on a ledger with a file, and
\* the event is in the log with the value it has in the file
C9_Witness ==
    /\ last.op = "modify_event"
    /\ ~last.ok
    /\ led.save_path = "file"
    /\ led.file.exists
    /\ \E i \in DOMAIN led.events :
          /\ led.events[i].event_id \in last.ids
          /\ led.events[i].value # last.arg[1].value

\* C10: a memory-only ledger and a file-backed ledger whose writes succeed
\* return the same results to the same calls and hold the same log and the
\* same id counter, a failed modify_event included.
C10_MemoryOnlySameAsFileBacked ==
    /\ last.twin_ok = last.ok
    /\ last.twin_exc = last.exc
    /\ twin.events = led.events
    /\ twin.event_id_counter = led.event_id_counter

\* C11: every event in the log before a modify_event that fails and rolls
\* back is still in the log after it, also when the write of its commit had
\* failed and the commit was kept in memory.
C11_CommittedSurvivesFailedModify ==
    [][(last'.op = "modify_event" /\ ~last'.ok
          /\ IndexOfId(led.events, CHOOSE id \in last'.ids : TRUE) # 0)
          => \A i \in DOMAIN led.events :
                IndexOfId(led'.events, led.events[i].event_id) # 0]_vars

\* C12: modify_event and delete_event called with an id that no event of
\* the log carries return failure and leave the log, the cached state and
\* hash, the id counter and the persisted file as they were.
C12_AbsentIdChangesNothing ==
    [][(last'.op \in {"modify_event", "delete_event"}
          /\ IndexOfId(led.events, CHOOSE id \in last'.ids : TRUE) = 0)
          => (~last'.ok /\ ~last'.exc /\ led' = led)]_vars

\* delete_event was refused for an id that is not in a non-empty log whose
\* state is cached and whose file is written
C12_Witness ==
    /\ last.op = "delete_event"
    /\ ~last.ok
    /\ IndexOfId(led.events, CHOOSE id \in last.ids : TRUE) = 0
    /\ led.events # <<>>
    /\ led.events_hash = <<led.events>>
    /\ led.file.exists
    /\ led.file.events = led.events

\* C13: delete_events called with ids none of which is in the log fails
\* (success = false), as modify_event and delete_event do for an absent id.
C13_DeleteEventsAbsentIdsFails ==
    [][(last'.op = "delete_events" /\ last'.ids # {}
          /\ \A id \in last'.ids : IndexOfId(led.events, id) = 0)
          => ~last'.ok]_vars

\* the fields of an event that a caller supplies, in log order
Payload(events) ==
    [i \in DOMAIN events |->
        [event_id |-> events[i].event_id, type |-> events[i].type,
         action |-> events[i].action, value |-> events[i].value,
         unit |-> events[i].unit, name |-> events[i].name,
         qty |-> events[i].qty, reason |-> events[i].reason]]

ChapterAt(events, k) ==
    Cardinality({j \in 1..k : events[j].type = "chapter_start"})

\* the State the ledger computes for the first k events of its log
PrefixState(L, k) ==
    reduce(L.strict_mode, SubSeq(L.events, 1, k), L.temporal_state).state

\* the id the replay gives to the buff gained at event i: the last one listed
BuffIdAt(L, i) == PrefixState(L, i).buffs[Len(PrefixState(L, i).buffs)]

\* event i gains a chapter buff while the chapter counter is below its
\* threshold
GainsChapterBuff(events, i) ==
    /\ events[i].type = "buff"
    /\ events[i].action = "gain"
    /\ events[i].expiry_type = "chapter"
    /\ ChapterAt(events, i) < events[i].expiry_value

\* C15: a chapter buff with threshold T gained while the chapter counter is
\* below T is listed in the state of every prefix whose chapter counter is
\* below T and in the state of no prefix that includes the event at which
\* the counter reaches T.
C15_ChapterBuffExpiresAtThreshold ==
    \A i \in DOMAIN led.events :
        GainsChapterBuff(led.events, i) =>
            \A k \in i..Len(led.events) :
                (BuffIdAt(led, i) \in Range(PrefixState(led, k).buffs))
                    <=> (ChapterAt(led.events, k) < led.events[i].expiry_value)

\* the log gains a chapter buff and ends with the chapter marker that
\* brings the counter to its threshold; the buff is listed before that
\* marker and not after it
C15_Witness ==
    /\ Len(led.events) >= 3
    /\ led.events[Len(led.events)].type = "chapter_start"
    /\ \E i \in DOMAIN led.events :
          /\ GainsChapterBuff(led.events, i)
          /\ ChapterAt(led.events, Len(led.events)) = led.events[i].expiry_value
          /\ BuffIdAt(led, i) \in
                Range(PrefixState(led, Len(led.events) - 1).buffs)
          /\ BuffIdAt(led, i) \notin
                Range(PrefixState(led, Len(led.events)).buffs)

\* C16: after a get_state call the cache is valid for the log as it stands,
\* so that a second get_state with no mutating call in between returns the
\* cached state without a replay, whatever events the log holds.
C16_SecondGetStateIsCached ==
    (last.op = "get_state" /\ last.ok)
        => (led.events_hash = <<led.events>> /\ get_state(led).L = led)

\* C17: after every successful add_event, process_batch, modify_event,
\* delete_event or delete_events the cache is invalidated, so that the next
\* get_state replays the log.
C17_SuccessInvalidatesCache ==
    [][(last'.ok /\ last'.op \in {"add_event", "process_batch", "modify_event",
                                   "delete_event", "delete_events"})
          => led'.events_hash = <<>>]_vars

\* C19: a commit of add_event or process_batch that succeeds when the
\* persistence write succeeds also returns success, with the same in-memory
\* log, when the write fails: a write failure never undoes or fails it.
C19_WriteFailureKeepsCommit ==
    [][/\ (last'.op = "add_event" /\ add_event(led, last'.arg[1], "ok").ok)
            => /\ last'.ok
               /\ led'.events = add_event(led, last'.arg[1], "ok").L.events
       /\ (last'.op = "process_batch" /\ process_batch(led, last'.arg, "ok").ok)
            => /\ last'.ok
               /\ led'.events = process_batch(led, last'.arg, "ok").L.events]_vars

\* C20: after any sequence of add_event, process_batch, modify_event (with a
\* patch that has no event_id), delete_event and delete_events calls, the
\* event ids of the log are strictly increasing in log order, hence
\* pairwise distinct, and none exceeds last_event_id.
C20_IdsIncreasingAndBounded ==
    /\ \A i, j \in DOMAIN led.events :
          i < j => led.events[i].event_id < led.events[j].event_id
    /\ \A i \in DOMAIN led.events :
          /\ led.events[i].event_id >= 1
          /\ led.events[i].event_id <= led.event_id_counter

\* an event was committed after earlier calls left a gap in the ids, and
\* the file has not seen the id it was given
C20_Witness ==
    /\ last.op \in {"add_event", "process_batch"}
    /\ last.ok
    /\ Len(led.events) = 2
    /\ led.events[2].event_id = 3
    /\ led.file.last_event_id < 3

\* C18: while a persistence write is between the start of the temp-file
\* write and the rename, whether the process has crashed there or not, the
\* target file parses and holds the content of the previous commit.
C18_TargetIntactDuringWrite ==
    disk.pc \in {"write", "replace"}
        => /\ Parseable(disk.target)
           /\ ReadText(disk.target) = led.file

\* the process crashed with the temp file partly written, over a target
\* file that exists and lacks the commit being saved
C18_Witness ==
    /\ disk.crashed
    /\ disk.pc = "write"
    /\ disk.tmp.written >= 1
    /\ disk.tmp.written < WriteChunks
    /\ disk.target.exists
    /\ disk.target.data.events # led.events

\* the outcome of the last Formula Engine call: the class of the exception
\* raised ("" for none), its cause and the value returned
Outcome == CHOOSE o \in last.ids : TRUE

\* C21: registering A = B * 2 and then B = A / 2 fails on the second call,
\* and afterwards neither A nor B is a registered formula.
C21_CycleUnregistersBoth ==
    [][(/\ last'.op = "register_formula"
        /\ last'.arg = <<"B", AOverTwo>>
        /\ "A" \in DOMAIN led.formula_engine.formulas
        /\ led.formula_engine.formulas["A"] = BTimesTwo)
          => /\ last'.exc
             /\ "A" \notin DOMAIN led'.formula_engine.formulas
             /\ "B" \notin DOMAIN led'.formula_engine.formulas]_vars

\* C22: a register_formula call that fails cycle detection leaves the
\* formulas, the dependency sets and the dirty flags as they were before
\* the call, also when the name was already registered.
C22_FailedRegistrationChangesNothing ==
    [][(last'.op = "register_formula" /\ last'.exc)
          => led'.formula_engine = led.formula_engine]_vars

\* the formulas that start_field reaches over formula-to-formula edges
RECURSIVE ReachedFrom(_, _)
ReachedFrom(dependencies, fields) ==
    With(fields \cup UNION {dependencies[f] \cap DOMAIN dependencies : f \in fields},
         LAMBDA more :
      IF more = fields THEN fields ELSE ReachedFrom(dependencies, more))

Acyclic(dependencies) ==
    \A f \in DOMAIN dependencies :
        f \notin ReachedFrom(dependencies,
                             dependencies[f] \cap DOMAIN dependencies)

\* C23: after any sequence of register_formula calls, accepted or
\* rejected, of new names or of registered ones, no formula depends on
\* itself, directly or through other formulas.
C23_DependencyGraphAcyclic == Acyclic(led.formula_engine.dependencies)

\* a registration was refused for a cycle through another formula, which
\* is still registered
C23_Witness ==
    /\ last.op = "register_formula"
    /\ last.exc
    /\ \E f \in DOMAIN led.formula_engine.dependencies :
          /\ f # last.arg[1]
          /\ last.arg[1] \in led.formula_engine.dependencies[f]
          /\ f \in extract_dependencies(last.arg[2])

\* formula f of the engine divides by y, which context sets to zero
DividesByZero(fe, f, context) ==
    /\ fe.formulas[f] \in {XOverY, XFloorY}
    /\ {"x", "y"} \subseteq DOMAIN context
    /\ context["y"] = 0

\* C24: evaluating x / y or x // y with y = 0 never returns a value, and
\* raises an exception of a class that recalculate raises for no other
\* evaluation failure (missing variable, malformed expression, exponent
\* guard), so that its caller can tell the division by zero apart.
C24_ZeroDivisionToldApart ==
    \A f \in DOMAIN led.formula_engine.formulas, c \in FormulaContexts :
        DividesByZero(led.formula_engine, f, c) =>
            /\ recalculate(led.formula_engine, f, c).raised # ""
            /\ \A g \in DOMAIN led.formula_engine.formulas, d \in FormulaContexts :
                  (/\ recalculate(led.formula_engine, g, d).raised # ""
                   /\ ~DividesByZero(led.formula_engine, g, d))
                     => recalculate(led.formula_engine, g, d).raised
                            # recalculate(led.formula_engine, f, c).raised

\* the breakdown a from_base call returned
Breakdown == CHOOSE b \in last.ids : TRUE

RECURSIVE BreakdownTotal(_, _, _)
BreakdownTotal(schema, b, units) ==
    IF units = {} THEN Whole(0)
    ELSE With(CHOOSE u \in units : TRUE,
              LAMBDA u : FracPlus(FracTimes(b[u], RateOf(schema, u)),
                                  BreakdownTotal(schema, b, units \ {u})))

\* C25: for every valid schema and every non-negative value v, the counts
\* of the breakdown from_base(v) returns, each multiplied by its unit's
\* rate, sum to v
C25_BreakdownSumsToValue ==
    last.op = "from_base" =>
        BreakdownTotal(led.schema, Breakdown, DOMAIN Breakdown) = last.arg[1]

\* the buff gain events of a log
BuffGains(events) ==
    {i \in DOMAIN events : events[i].type = "buff" /\ events[i].action = "gain"}

\* C26: the Temporal State never holds more active buffs than the committed
\* log has buff gain events: a buff event is registered once, not once per
\* replay
C26_BuffsRegisteredOnce ==
    Len(led.temporal_state.active_buffs) <= Cardinality(BuffGains(led.events))

\* C27: a second reduce over the same log leaves every field of every event,
\* its logs list and its flags included, as the first reduce left it
C27_SecondReplayKeepsEvents ==
    ~Replay(led).err =>
        reduce(led.strict_mode, Replay(led).events, Replay(led).ts).events
            = Replay(led).events

\* C28: a rejected add_event or process_batch leaves the Temporal State, the
\* formula dirty flags, the committed events and the event id counter as
\* they were before the call
C28_RejectedCallChangesNothing ==
    [][(last'.op \in {"add_event", "process_batch"} /\ ~last'.ok)
          => /\ led'.temporal_state = led.temporal_state
             /\ led'.formula_engine.dirty_flags = led.formula_engine.dirty_flags
             /\ led'.events = led.events
             /\ led'.event_id_counter = led.event_id_counter]_vars

\* the ids of the buffs active in a Temporal State, in order
ActiveIds(ts) == [i \in DOMAIN ts.active_buffs |-> ts.active_buffs[i].id]

\* C29: after a reduce the State's buff list is exactly the list of the ids
\* of the buffs active in the Temporal State, the buffs whose effects went
\* into the computed stats
C29_StateBuffsAreActiveBuffs ==
    ~Replay(led).err => Replay(led).state.buffs = ActiveIds(Replay(led).ts)

\* the buffs of the Temporal State that the State returned by a replay lists
ListedBuffs(r) ==
    {r.ts.active_buffs[i] : i \in {j \in DOMAIN r.ts.active_buffs :
                                      r.ts.active_buffs[j].id \in Range(r.state.buffs)}}

\* C30: in the State returned by reduce no active buff is a chapter buff
\* whose threshold is at or below the final chapter counter, nor a
\* word_count buff whose threshold is at or below the final word count
C30_NoActiveBuffPastThreshold ==
    ~Replay(led).err =>
        \A b \in ListedBuffs(Replay(led)) :
            ~IsExpired(b, Replay(led).chapter, Replay(led).word_count)

\* C31: add_event returns a (success, message) pair for every candidate
\* event and lets no exception escape, also when the value is indeterminate
\* or not a number while a rule matches the event's type; when it returns
\* failure the log is unchanged
C31_AddEventNeverRaises ==
    [][last'.op = "add_event"
          => /\ ~last'.exc
             /\ ~last'.ok => led'.events = led.events]_vars

\* the amounts event i of the log targets, in the State computed for the
\* first k events: the gold balance, each quantity, each base stat
Targets(L, k) ==
    [gold |-> PrefixState(L, k).gold_cp,
     qty |-> [n \in {L.events[i].name : i \in DOMAIN L.events} |->
                 Get(PrefixState(L, k).inventory, n, 0)],
     stat |-> [n \in {L.events[i].name : i \in DOMAIN L.events} |->
                 Get(PrefixState(L, k).stats, n, 0)]]

NoTargetAbove(a, b) ==
    /\ a.gold <= b.gold
    /\ \A n \in DOMAIN a.qty : a.qty[n] <= b.qty[n] /\ a.stat[n] <= b.stat[n]

\* C32: during replay an event with action lose never increases the
\* balance, quantity or stat it targets and one with action gain never
\* decreases it, negative amounts included
C32_LoseNeverIncreases ==
    \A i \in DOMAIN led.events :
        /\ led.events[i].type \in {"gold", "item", "stat"} /\ led.events[i].action = "lose"
              => NoTargetAbove(Targets(led, i), Targets(led, i - 1))
        /\ led.events[i].type \in {"gold", "item", "stat"} /\ led.events[i].action = "gain"
              => NoTargetAbove(Targets(led, i - 1), Targets(led, i))

\* C33: after any sequence of register_unit calls the schema still has its
\* base unit in the conversion table at rate exactly 1 and every rate
\* strictly positive
C33_SchemaStaysValid == validate(led.schema)

\* the rules the claim has apply_rules apply to an event of the given type:
\* those with no condition whose target is the type or "any", in
\* registration order
RECURSIVE RulesToApply(_, _)
RulesToApply(rules, type) ==
    IF rules = <<>> THEN <<>>
    ELSE IF (Head(rules).target_type = type \/ Head(rules).target_type = "any")
            /\ Head(rules).condition.null
         THEN <<Head(rules)>> \o RulesToApply(Tail(rules), type)
         ELSE RulesToApply(Tail(rules), type)

RuleResult(rule, value) ==
    CASE rule.operation = "multiply" -> value * rule.modifier
      [] rule.operation = "add" -> value + rule.modifier
      [] OTHER -> rule.modifier

\* the audit trail of event ev after apply_rules is the chain of rules
AuditChain(ev, out, rules) ==
    /\ Len(out.applied_rules) = Len(rules)
    /\ \A k \in DOMAIN rules :
          /\ k <= Len(out.applied_rules)
          /\ out.applied_rules[k].rule_id = rules[k].id
          /\ out.applied_rules[k].original_value =
                (IF k = 1 THEN ev.value.n ELSE out.applied_rules[k - 1].modified_value)
          /\ out.applied_rules[k].modified_value =
                RuleResult(rules[k], out.applied_rules[k].original_value)
    /\ out.value = (IF rules = <<>> THEN ev.value
                    ELSE Num(out.applied_rules[Len(out.applied_rules)].modified_value))

\* C34: apply_rules applies the unconditional rules that match the event's
\* type in registration order, each to the value the previous one left,
\* skips every rule with a non-null condition and appends one audit entry
\* per applied rule, each entry starting from the previous entry's result
C34_RulesComposeInOrder ==
    \A ev \in {GainGold, NegativeGainGold} :
        /\ ~apply_rules(led.rule_engine, ev).raised
        /\ AuditChain(ev, apply_rules(led.rule_engine, ev).e,
                      RulesToApply(led.rule_engine.active_rules, ev.type))

\* the dirty flags and the dependency sets of the ledger's Formula Engine
Dirty == led.formula_engine.dirty_flags
Deps == led.formula_engine.dependencies

\* C35: recalculate fails with a missing-dependency error when a name of
\* the formula's dependency set is absent from the context and then leaves
\* the dirty flags as they were; when it succeeds it clears the formula's
\* flag; mark_dirty(f) sets the flag of exactly the formulas whose
\* dependency set contains f and leaves the other flags as they were
C35_DirtyFlagsFollowCalls ==
    [][/\ (/\ last'.op = "recalculate"
           /\ last'.arg[1] \in DOMAIN Deps
           /\ Deps[last'.arg[1]] \ DOMAIN last'.arg[2] # {})
          => /\ last'.ids = {<<"KeyError", "missing stats", NoValue>>}
             /\ Dirty' = Dirty
       /\ (last'.op = "recalculate" /\ last'.ok)
          => Dirty' = [Dirty EXCEPT ![last'.arg[1]] = FALSE]
       /\ last'.op = "mark_dirty"
          => Dirty' = [f \in DOMAIN Dirty |->
                          IF last'.arg[1] \in Deps[f] THEN TRUE ELSE Dirty[f]]]_vars

\* a mark_dirty call has flagged one formula and left another, evaluated
\* before, clean
C35_Witness ==
    /\ last.op = "mark_dirty"
    /\ \E f, g \in DOMAIN Dirty :
          /\ last.arg[1] \in Deps[f] /\ Dirty[f]
          /\ last.arg[1] \notin Deps[g] /\ ~Dirty[g]

\* the names of the functions a tree calls
RECURSIVE CalledFunctions(_)
CalledFunctions(e) ==
    (IF e.k = "call" THEN {e.name} ELSE {})
        \cup UNION {CalledFunctions(e.args[i]) : i \in DOMAIN e.args}

\* the variables of a tree
RECURSIVE Variables(_)
Variables(e) ==
    (IF e.k = "var" THEN {e.name} ELSE {})
        \cup UNION {Variables(e.args[i]) : i \in DOMAIN e.args}

SUPPORTED_FUNCTIONS == {"abs", "max", "min", "int", "round", "pow"}

\* C36: the name of a supported function a formula calls is not in the
\* formula's dependency set, so recalculate does not fail for a missing
\* dependency when the context holds all the formula's variables
C36_FunctionNamesAreNoDependencies ==
    \A f \in DOMAIN led.formula_engine.formulas :
        (/\ led.formula_engine.formulas[f].k = "call"
         /\ CalledFunctions(led.formula_engine.formulas[f]) \subseteq SUPPORTED_FUNCTIONS)
        => /\ Deps[f] \cap SUPPORTED_FUNCTIONS = {}
           /\ \A c \in FormulaContexts :
                 Variables(led.formula_engine.formulas[f]) \subseteq DOMAIN c
                    => recalculate(led.formula_engine, f, c).raised = ""

\* event e is a gold, item or stat event whose amount is "", null or "TBD"
HasIndeterminateAmount(e) ==
    \/ e.type \in {"gold", "stat"} /\ IsIndeterminate(e.value)
    \/ e.type = "item" /\ IsIndeterminate(e.qty)

\* C37: replaying a gold, item or stat event whose value or quantity is
\* "", null or "TBD" leaves the balance, the inventory and the base stats
\* as they were before the event and sets requires_manual_fix on the event
C37_IndeterminateEventSkipped ==
    \A i \in DOMAIN led.events :
        HasIndeterminateAmount(led.events[i])
           => /\ PrefixState(led, i).gold_cp = PrefixState(led, i - 1).gold_cp
              /\ PrefixState(led, i).inventory = PrefixState(led, i - 1).inventory
              /\ PrefixState(led, i).stats = PrefixState(led, i - 1).stats
              /\ led.events[i].requires_manual_fix

\* an event with an indeterminate amount was committed after an event that
\* changed the State
C37_Witness ==
    /\ Len(led.events) = 2
    /\ HasIndeterminateAmount(led.events[2])
    /\ PrefixState(led, 1) # PrefixState(led, 0)
    /\ last.op = "add_event" /\ last.ok

\* transaction tx is a gain above its cap: a gold gain above 999999 for a
\* whitelisted unit or above 10000 for another, a stat gain above 999999 for
\* a whitelisted name or above 20 for another, an item gain above 50
GainAboveCap(tx) ==
    /\ tx.action = "gain"
    /\ \/ /\ tx.type = "gold"
          /\ CleanNumber(tx.value) > (IF UpperName(tx.unit) \in UNROBUST_STATS
                                      THEN 999999 ELSE 10000)
       \/ /\ tx.type = "stat"
          /\ CleanNumber(tx.value) > (IF UpperName(tx.name) \in UNROBUST_STATS
                                      THEN 999999 ELSE 20)
       \/ /\ tx.type = "item"
          /\ CleanNumber(tx.qty) > 50

\* C38: process_batch rejects every batch that holds a gain above its cap
\* and commits nothing of it, in strict and in draft mode alike
C38_OversizedGainRejectsBatch ==
    [][(/\ last'.op = "process_batch"
        /\ \E i \in DOMAIN last'.arg : GainAboveCap(last'.arg[i]))
          => /\ ~last'.ok
             /\ ~last'.exc
             /\ led'.events = led.events]_vars

\* a draft ledger that holds an event refused a batch whose second
\* transaction is a gain above its cap
C38_Witness ==
    /\ last.op = "process_batch"
    /\ ~last.ok
    /\ ~led.strict_mode
    /\ led.events # <<>>
    /\ Len(last.arg) = 2
    /\ ~GainAboveCap(last.arg[1])
    /\ GainAboveCap(last.arg[2])

\* C39: in a formula a // b with b # 0 evaluates to the floor of the
\* quotient, a whole number, not to the exact quotient
C39_FloorDivisionIsWhole ==
    \A f \in DOMAIN led.formula_engine.formulas, c \in FormulaContexts :
        (/\ led.formula_engine.formulas[f] = XFloorY
         /\ {"x", "y"} \subseteq DOMAIN c
         /\ c["y"] # 0)
        => /\ recalculate(led.formula_engine, f, c).raised = ""
           /\ recalculate(led.formula_engine, f, c).value
                 = Whole(c["x"] \div c["y"])

\* the rate the classic fantasy schema gives a unit, 1 for a unit that is
\* not in the schema
ClassicRate(unit) ==
    CASE unit = "GP" -> 100
      [] unit = "SP" -> 10
      [] OTHER -> 1

====
